---- MODULE Spec2Model ----
(***************************************************************************)
(* Monthly report generation pipeline of website-reports.                  *)
(*                                                                         *)
(* The worker has two trigger surfaces, the scheduled handler and the      *)
(* manual /run route (index.ts); each is a process that invokes            *)
(* generateMonthlyReport (reporting.ts) once, so that the two invocations  *)
(* follow one another or overlap in every possible way.  Every await of    *)
(* the function is a point where the processes interleave: there is one    *)
(* action per awaited call settling, and the synchronous code that follows *)
(* the await, up to the next await, is part of that action.  The           *)
(* relational store (D1), the blob store (R2) and the upstream services    *)
(* are the environment: their failures are chosen nondeterministically.    *)
(*                                                                         *)
(* Strings the code takes apart or builds (month keys, dates, object keys) *)
(* are sequences of one-character strings.                                 *)
(***************************************************************************)
EXTENDS Integers, Sequences, FiniteSets, TLC

(***************************************************************************)
(* Bounds of the model                                                     *)
(***************************************************************************)
\* failures the environment injects in one behaviour (upstream, D1, R2)
MaxFaults == 2

Undefined == "undefined"
Null == "null"

\* a nullable column or field that is stored in a table or a document: the
\* empty sequence for null, the one-element sequence for a value
None == <<>>
Some(v) == <<v>>

(***************************************************************************)
(* Characters and numbers                                                  *)
(***************************************************************************)
DigitChars == <<"0", "1", "2", "3", "4", "5", "6", "7", "8", "9">>

IsDigit(c) == \E i \in 1..10 : DigitChars[i] = c

DigitVal(c) == (CHOOSE i \in 1..10 : DigitChars[i] = c) - 1

\* Number("0123") for a string of ASCII digits
RECURSIVE NumberOf(_)
NumberOf(s) ==
  IF Len(s) = 0 THEN 0
  ELSE 10 * NumberOf(SubSeq(s, 1, Len(s) - 1)) + DigitVal(s[Len(s)])

\* String(n).padStart(w, "0") for n >= 0
RECURSIVE PadStart(_, _)
PadStart(n, w) ==
  IF w = 0 THEN <<>>
  ELSE PadStart(n \div 10, w - 1) \o <<DigitChars[(n % 10) + 1]>>

(***************************************************************************)
(* Errors.  A thrown Error is its message; the message is a token for its  *)
(* fixed part and a length, because the upstream's response text is        *)
(* appended to it and the code cuts messages by length.                    *)
(***************************************************************************)
AuthFailedMessage == "Cloudflare GraphQL auth failed. Set a valid CF_API_TOKEN runtime secret."
RequestFailedMessage == "Cloudflare GraphQL request failed"
NoAccessMessage == "Cloudflare GraphQL returned errors: zone does not have access to the path"
PdfFailedMessage == "Browser Rendering PDF request failed"
PageSpeedFailedMessage == "PageSpeed request failed"
R2FailedMessage == "R2 put failed"
D1FailedMessage == "D1 statement failed"

\* the length of the message of each error the model raises; an upstream
\* error carries the whole response body
MessageLength(msg) ==
  CASE msg = AuthFailedMessage -> 127
    [] msg = RequestFailedMessage -> 2600
    [] msg = NoAccessMessage -> 96
    [] msg = PdfFailedMessage -> 1900
    [] msg = PageSpeedFailedMessage -> 700
    [] OTHER -> 40

Error(msg) == [message |-> msg, length |-> MessageLength(msg)]

(***************************************************************************)
(* period.ts: a Date that is the first instant of a UTC month is the pair  *)
(* [y, m0] of its UTC full year and its zero-based UTC month.              *)
(***************************************************************************)
\* Date.UTC(year, monthIndex, 1): years 0..99 mean 1900..1999, and a month
\* index outside 0..11 carries into the year.
DateUTC(year, monthIndex) ==
  LET y == IF year >= 0 /\ year <= 99 THEN 1900 + year ELSE year
  IN  [y |-> y + (monthIndex \div 12), m0 |-> monthIndex % 12]

\* Date.prototype.toISOString().slice(0, 10) of a month start: years outside
\* 0..9999 are written in the expanded form with a sign and six digits.
toIsoYear(y) ==
  IF y >= 0 /\ y <= 9999 THEN PadStart(y, 4)
  ELSE IF y > 9999 THEN <<"+">> \o PadStart(y, 6)
  ELSE <<"-">> \o PadStart(0 - y, 6)

toIsoDate(date) ==
  SubSeq(toIsoYear(date.y) \o <<"-">> \o PadStart(date.m0 + 1, 2) \o <<"-", "0", "1">>
           \o <<"T", "0", "0", ":", "0", "0", ":", "0", "0", ".", "0", "0", "0", "Z">>,
         1, 10)

\* a shift that stays within the year of the date: a faulty variant, which
\* C20 excludes
shiftMonthWithinYear(date, offset) == [y |-> date.y, m0 |-> (date.m0 + offset) % 12]

shiftMonth(date, offset) == DateUTC(date.y, date.m0 + offset)

\* MONTH_KEY_REGEX = /^(\d{4})-(\d{2})$/
MonthKeyRegexMatches(s) ==
  /\ Len(s) = 7
  /\ \A i \in {1, 2, 3, 4, 6, 7} : IsDigit(s[i])
  /\ s[5] = "-"

Thrown(err) == [ok |-> FALSE, error |-> err]
Returned(v) == [ok |-> TRUE, value |-> v]

FormatMessage == "month must use YYYY-MM format"
RangeMessage == "month must be between 01 and 12"

parseMonthOverride(monthOverride) ==
  IF ~MonthKeyRegexMatches(monthOverride)
  THEN Thrown(Error(FormatMessage))
  ELSE LET year == NumberOf(SubSeq(monthOverride, 1, 4))
           month == NumberOf(SubSeq(monthOverride, 6, 7))
       IN  IF month < 1 \/ month > 12
           THEN Thrown(Error(RangeMessage))
           ELSE Returned(DateUTC(year, month - 1))

\* `monthOverride ? ... : ...`: undefined and the empty string are falsy
Truthy(s) == s # Undefined /\ Len(s) > 0

DateTimeOf(date) == toIsoDate(date) \o <<"T", "0", "0", ":", "0", "0", ":", "0", "0", "Z">>

buildMonthPeriod(now, monthOverride) ==
  LET target == IF Truthy(monthOverride)
                THEN parseMonthOverride(monthOverride)
                ELSE Returned(shiftMonth(DateUTC(now.y, now.m0), -1))
  IN  IF ~target.ok THEN target
      ELSE LET targetMonthStart == target.value
               targetMonthEnd == shiftMonth(targetMonthStart, 1)
               previousMonthStart == shiftMonth(targetMonthStart, -1)
               previousMonthEnd == targetMonthStart
           IN  Returned(
                 [monthKey |-> SubSeq(toIsoDate(targetMonthStart), 1, 7),
                  startDate |-> toIsoDate(targetMonthStart),
                  endDateExclusive |-> toIsoDate(targetMonthEnd),
                  prevMonthKey |-> SubSeq(toIsoDate(previousMonthStart), 1, 7),
                  prevStartDate |-> toIsoDate(previousMonthStart),
                  prevEndDateExclusive |-> toIsoDate(previousMonthEnd),
                  startDateTime |-> DateTimeOf(targetMonthStart),
                  endDateTimeExclusive |-> DateTimeOf(targetMonthEnd),
                  prevStartDateTime |-> DateTimeOf(previousMonthStart),
                  prevEndDateTimeExclusive |-> DateTimeOf(previousMonthEnd)])

(***************************************************************************)
(* config.ts                                                               *)
(***************************************************************************)
SITE_CONFIG ==
  [clientId |-> "demo-client",
   zoneId |-> "d0b44ec1a3c28d4bc2e92312ceb0eb82",
   domain |-> "mounthanoverns.ie",
   pagespeedUrls |-> <<"https://mounthanoverns.ie/">>]

\* errorMsg.includes("does not have access")
IncludesDoesNotHaveAccess(err) == err.message = NoAccessMessage

(***************************************************************************)
(* The upstream services.  What a service holds is fixed for a behaviour;  *)
(* whether a call to it succeeds is the environment's choice.              *)
(***************************************************************************)
\* outcome of one GraphQL request
GraphqlOutcomes == {"ok", "auth", "http", "noaccess"}
GraphqlFailures == GraphqlOutcomes \ {"ok"}

MonthNumberOf(date) == NumberOf(SubSeq(date, 6, 7))

DayOf(startDate, d) == SubSeq(startDate, 1, 8) \o PadStart(d, 2)

\* httpRequests1dGroups of the zone for [startDate, endDateExclusive)
UpstreamDaily(startDate, endDateExclusive) ==
  LET k == MonthNumberOf(startDate)
  IN  <<[date |-> DayOf(startDate, 1), requests |-> 100 * k, uniques |-> 10 * k, bytes |-> 1000 * k],
        [date |-> DayOf(startDate, 9), requests |-> 50, uniques |-> 5, bytes |-> 500]>>

\* httpRequestsAdaptiveGroups of the zone, ordered by count
UpstreamTopPaths(startDateTime, endDateTimeExclusive) ==
  <<[path |-> "/", requests |-> 40 + MonthNumberOf(startDateTime)],
    [path |-> "/contact", requests |-> 7]>>

\* firewallEventsAdaptiveGroups grouped by (source, action)
UpstreamSecurity(startDateTime, endDateTimeExclusive) ==
  <<[source |-> "waf", action |-> "block", count |-> 5],
    [source |-> "botFight", action |-> "Managed_Challenge", count |-> 5 + MonthNumberOf(startDateTime)],
    [source |-> "ratelimit", action |-> "log", count |-> 2]>>

\* the same events grouped by action alone
UpstreamSecurityActionOnly(startDateTime, endDateTimeExclusive) ==
  <<[action |-> "block", count |-> 5],
    [action |-> "Managed_Challenge", count |-> 5 + MonthNumberOf(startDateTime)],
    [action |-> "log", count |-> 2]>>

\* Lighthouse category scores of a page, already normalised to 0..100
UpstreamScores(url, strategy) ==
  IF strategy = "mobile"
  THEN [performance |-> Some(71), accessibility |-> Some(90), bestPractices |-> Some(96),
        seo |-> Some(100)]
  ELSE [performance |-> Some(93), accessibility |-> Some(90), bestPractices |-> Some(96),
        seo |-> Some(100)]

(***************************************************************************)
(* cloudflare.ts                                                           *)
(***************************************************************************)
graphqlRequest(outcome, data) ==
  CASE outcome = "ok" -> Returned(data)
    [] outcome = "auth" -> Thrown(Error(AuthFailedMessage))
    [] outcome = "noaccess" -> Thrown(Error(NoAccessMessage))
    [] OTHER -> Thrown(Error(RequestFailedMessage))

\* left.date.localeCompare(right.date) < 0 for two dates written YYYY-MM-DD
DateStringBefore(left, right) ==
  LET key(date) == NumberOf(SubSeq(date, 1, 4) \o SubSeq(date, 6, 7) \o SubSeq(date, 9, 10))
  IN  key(left) < key(right)

\* Array.prototype.sort by date: stable, ascending
RECURSIVE SortByDate(_)
SortByDate(points) ==
  IF Len(points) <= 1 THEN points
  ELSE LET sorted == SortByDate(SubSeq(points, 1, Len(points) - 1))
           last == points[Len(points)]
           k == Cardinality({i \in 1..Len(sorted) : ~DateStringBefore(last.date, sorted[i].date)})
       IN  SubSeq(sorted, 1, k) \o <<last>> \o SubSeq(sorted, k + 1, Len(sorted))

\* lines 446-454: the groups as points, without those that have no date, by
\* date ascending
TrafficPointsOf(groups) ==
  SortByDate(SelectSeq(groups, LAMBDA item : Len(item.date) > 0))

fetchTrafficDaily(outcome, startDate, endDateExclusive) ==
  LET data == graphqlRequest(outcome, UpstreamDaily(startDate, endDateExclusive))
  IN  IF data.ok THEN Returned(TrafficPointsOf(data.value)) ELSE data

fetchTopPaths(outcome, startDateTime, endDateTimeExclusive) ==
  graphqlRequest(outcome, UpstreamTopPaths(startDateTime, endDateTimeExclusive))

WithUnknownSource(groups) ==
  [i \in 1..Len(groups) |->
     [source |-> "unknown", action |-> groups[i].action, count |-> groups[i].count]]

\* a function that gives up after its first query: a faulty variant, which
\* C10 excludes
fetchSecurityGroupsWithoutFallback(fullOutcome, actionOnlyOutcome, startDateTime, endDateTimeExclusive) ==
  LET full == graphqlRequest(fullOutcome, UpstreamSecurity(startDateTime, endDateTimeExclusive))
  IN  [result |-> Returned(IF full.ok THEN full.value ELSE <<>>), queries |-> <<"securityFull">>]

\* The result never throws.  queries is the list of GraphQL requests issued:
\* the (source, action) query, then the action-only query unless the first
\* succeeded or its error says the zone does not have access.
fetchSecurityGroups(fullOutcome, actionOnlyOutcome, startDateTime, endDateTimeExclusive) ==
  LET full == graphqlRequest(fullOutcome, UpstreamSecurity(startDateTime, endDateTimeExclusive))
      actionOnly == graphqlRequest(actionOnlyOutcome,
                      UpstreamSecurityActionOnly(startDateTime, endDateTimeExclusive))
  IN  IF full.ok
      THEN [result |-> Returned(full.value), queries |-> <<"securityFull">>]
      ELSE IF IncludesDoesNotHaveAccess(full.error)
      THEN [result |-> Returned(<<>>), queries |-> <<"securityFull">>]
      ELSE IF actionOnly.ok
      THEN [result |-> Returned(WithUnknownSource(actionOnly.value)),
            queries |-> <<"securityFull", "securityActionOnly">>]
      ELSE [result |-> Returned(<<>>), queries |-> <<"securityFull", "securityActionOnly">>]

(***************************************************************************)
(* pagespeed.ts                                                            *)
(***************************************************************************)
Strategies == <<"mobile", "desktop">>

emptyScores == [performance |-> None, accessibility |-> None, bestPractices |-> None, seo |-> None]

\* vitals and opportunities are carried as the empty lists: nothing below
\* reads them
emptyRunResult == [scores |-> emptyScores, vitals |-> <<>>, opportunities |-> <<>>]

runPageSpeed(outcome, url, strategy) ==
  IF outcome = "ok"
  THEN Returned([scores |-> UpstreamScores(url, strategy), vitals |-> <<>>, opportunities |-> <<>>])
  ELSE Thrown(Error(PageSpeedFailedMessage))

\* a warning is the parts of its template string and its length
Warning(parts, err) == [parts |-> parts, length |-> 30 + err.length]

\* a Set that drops only a url equal to the one before it: a faulty variant,
\* which C25 excludes
RECURSIVE DedupeAdjacent(_)
DedupeAdjacent(urls) ==
  IF Len(urls) = 0 THEN <<>>
  ELSE LET front == DedupeAdjacent(SubSeq(urls, 1, Len(urls) - 1))
           last == urls[Len(urls)]
       IN  IF Len(front) > 0 /\ front[Len(front)] = last THEN front ELSE Append(front, last)

\* Array.from(new Set(urls)): first occurrences, in order
RECURSIVE Dedupe(_)
Dedupe(urls) ==
  IF Len(urls) = 0 THEN <<>>
  ELSE LET front == Dedupe(SubSeq(urls, 1, Len(urls) - 1))
           last == urls[Len(urls)]
       IN  IF \E i \in 1..Len(front) : front[i] = last THEN front ELSE Append(front, last)

FilterNonEmpty(urls) == SelectSeq(urls, LAMBDA value : value # "")

\* a loop body that empties both devices when either probe fails: a faulty
\* variant, which C24 excludes
PageSpeedForUrlAllOrNothing(url, probe) ==
  LET mobile == runPageSpeed(probe.mobile, url, "mobile")
      desktop == runPageSpeed(probe.desktop, url, "desktop")
      both == mobile.ok /\ desktop.ok
      mobileWarning == IF mobile.ok THEN <<>>
                       ELSE <<Warning(<<"PageSpeed mobile failed for ", url>>, mobile.error)>>
      desktopWarning == IF desktop.ok THEN <<>>
                        ELSE <<Warning(<<"PageSpeed desktop failed for ", url>>, desktop.error)>>
  IN  [result |-> [url |-> url,
                   mobile |-> IF both THEN mobile.value.scores ELSE emptyScores,
                   desktop |-> IF both THEN desktop.value.scores ELSE emptyScores,
                   mobileVitals |-> <<>>,
                   desktopVitals |-> <<>>,
                   opportunities |-> <<>>],
       warnings |-> mobileWarning \o desktopWarning]

\* the loop body for one url.  probe.mobile and probe.desktop are the outcomes
\* of the two probes, which run concurrently; each catch handler pushes its
\* warning when its probe rejects, so when both fail the order of the two
\* warnings is the order of the rejections, probe.first.
PageSpeedForUrl(url, probe) ==
  LET mobile == runPageSpeed(probe.mobile, url, "mobile")
      desktop == runPageSpeed(probe.desktop, url, "desktop")
      mobileResult == IF mobile.ok THEN mobile.value ELSE emptyRunResult
      desktopResult == IF desktop.ok THEN desktop.value ELSE emptyRunResult
      mobileWarning == IF mobile.ok THEN <<>>
                       ELSE <<Warning(<<"PageSpeed mobile failed for ", url>>, mobile.error)>>
      desktopWarning == IF desktop.ok THEN <<>>
                        ELSE <<Warning(<<"PageSpeed desktop failed for ", url>>, desktop.error)>>
  IN  [result |-> [url |-> url,
                   mobile |-> mobileResult.scores,
                   desktop |-> desktopResult.scores,
                   mobileVitals |-> mobileResult.vitals,
                   desktopVitals |-> desktopResult.vitals,
                   opportunities |-> <<>>],
       warnings |-> IF probe.first = "mobile"
                    THEN mobileWarning \o desktopWarning
                    ELSE desktopWarning \o mobileWarning]

RECURSIVE PageSpeedLoop(_, _)
PageSpeedLoop(uniqueUrls, probes) ==
  IF Len(uniqueUrls) = 0 THEN [results |-> <<>>, warnings |-> <<>>]
  ELSE LET n == Len(uniqueUrls)
           before == PageSpeedLoop(SubSeq(uniqueUrls, 1, n - 1), probes)
           this == PageSpeedForUrl(uniqueUrls[n], probes[uniqueUrls[n]])
       IN  [results |-> Append(before.results, this.result),
            warnings |-> before.warnings \o this.warnings]

\* probes[url] is the outcome of the probes of url
fetchPageSpeedForUrls(urls, probes) == PageSpeedLoop(FilterNonEmpty(Dedupe(urls)), probes)

(***************************************************************************)
(* reporting.ts: the pure helpers                                          *)
(***************************************************************************)
RECURSIVE sumTraffic(_)
sumTraffic(daily) ==
  IF Len(daily) = 0 THEN [requests |-> 0, uniques |-> 0, bytes |-> 0]
  ELSE LET totals == sumTraffic(SubSeq(daily, 1, Len(daily) - 1))
           point == daily[Len(daily)]
       IN  [requests |-> totals.requests + point.requests,
            uniques |-> totals.uniques + point.uniques,
            bytes |-> totals.bytes + point.bytes]

\* a delta that is null whenever previous is 0: a faulty variant, which C22
\* excludes
withDeltaNullOnZero(current, previous) ==
  [current |-> current,
   previous |-> previous,
   deltaPercent |->
     IF previous = 0 THEN None
     ELSE Some([num |-> (current - previous) * 100, den |-> previous])]

\* deltaPercent is a floating-point number or null in the code; here a
\* number is the exact quotient num / den
withDelta(current, previous) ==
  [current |-> current,
   previous |-> previous,
   deltaPercent |->
     IF previous = 0
     THEN (IF current = 0 THEN Some([num |-> 0, den |-> 1]) ELSE None)
     ELSE Some([num |-> (current - previous) * 100, den |-> previous])]

\* String.prototype.toLowerCase on the words the upstream uses
toLowerCase(s) ==
  CASE s = "botFight" -> "botfight"
    [] s = "Managed_Challenge" -> "managed_challenge"
    [] OTHER -> s

firewallActions == {"block", "challenge", "js_challenge", "managed_challenge"}

\* s.includes("bot") || s.includes("rate") on the words the upstream uses
IncludesBotOrRate(s) == s \in {"botfight", "ratelimit", "bot_management"}

CategoryLabel(group) == <<group.source, "/", group.action>>

\* byCategory: a Map keeps its keys in the order of their first insertion;
\* it is the sequence of its [label, count] entries
RECURSIVE ByCategory(_)
ByCategory(groups) ==
  IF Len(groups) = 0 THEN <<>>
  ELSE LET map == ByCategory(SubSeq(groups, 1, Len(groups) - 1))
           group == groups[Len(groups)]
           label == CategoryLabel(group)
       IN  IF \E i \in 1..Len(map) : map[i].label = label
           THEN [i \in 1..Len(map) |->
                   IF map[i].label = label
                   THEN [label |-> label, count |-> map[i].count + group.count]
                   ELSE map[i]]
           ELSE Append(map, [label |-> label, count |-> group.count])

\* Array.prototype.sort((left, right) => right[1] - left[1]): stable, so
\* entries of equal count keep their order
\* an insertion that puts an entry before the entries of equal count: a
\* faulty variant, which C23 excludes
RECURSIVE InsertBeforeEqualCount(_, _)
InsertBeforeEqualCount(sorted, entry) ==
  IF Len(sorted) = 0 THEN <<entry>>
  ELSE IF sorted[Len(sorted)].count > entry.count THEN Append(sorted, entry)
  ELSE Append(InsertBeforeEqualCount(SubSeq(sorted, 1, Len(sorted) - 1), entry),
              sorted[Len(sorted)])

RECURSIVE InsertByCount(_, _)
InsertByCount(sorted, entry) ==
  IF Len(sorted) = 0 THEN <<entry>>
  ELSE IF sorted[Len(sorted)].count >= entry.count THEN Append(sorted, entry)
  ELSE Append(InsertByCount(SubSeq(sorted, 1, Len(sorted) - 1), entry), sorted[Len(sorted)])

RECURSIVE SortByCountDesc(_)
SortByCountDesc(entries) ==
  IF Len(entries) = 0 THEN <<>>
  ELSE InsertByCount(SortByCountDesc(SubSeq(entries, 1, Len(entries) - 1)), entries[Len(entries)])

Slice(seq, n) == SubSeq(seq, 1, IF Len(seq) < n THEN Len(seq) ELSE n)

RECURSIVE SumCounts(_)
SumCounts(groups) ==
  IF Len(groups) = 0 THEN 0
  ELSE SumCounts(SubSeq(groups, 1, Len(groups) - 1)) + groups[Len(groups)].count

IsFirewallAction(group) == toLowerCase(group.action) \in firewallActions

IsBotOrRateLimit(group) ==
  \/ IncludesBotOrRate(toLowerCase(group.action))
  \/ IncludesBotOrRate(toLowerCase(group.source))

buildSecuritySnapshot(groups) ==
  [totalFirewallActions |-> SumCounts(SelectSeq(groups, IsFirewallAction)),
   botRateLimitActions |-> SumCounts(SelectSeq(groups, IsBotOrRateLimit)),
   topCategories |-> Slice(SortByCountDesc(ByCategory(groups)), 3)]

\* buildWordPressSnapshot draws its fields with Math.random(): the draw is
\* one of these values
WordPressDraws == {"draw-a", "draw-b"}

buildWordPressSnapshot(monthKey, draw) ==
  [coreVersion |-> "6.7.2", phpVersion |-> "8.3.15", random |-> draw,
   lastBackupMonth |-> monthKey]

Min(a, b) == IF a < b THEN a ELSE b

\* warning.slice(0, 450)
normalizeWarnings(warnings) ==
  [i \in 1..Len(warnings) |->
     [parts |-> warnings[i].parts, length |-> Min(warnings[i].length, 450)]]

\* the message kept whole: a faulty variant, which C13 excludes
truncateErrorMessageWhole(error) == [message |-> error.message, length |-> error.length]

\* error.message.slice(0, 1800)
truncateErrorMessage(error) ==
  [message |-> error.message, length |-> Min(error.length, 1800)]

\* the result never throws; warnings is the list with the pushed warning
safeFetchTopPaths(outcome, period, warnings) ==
  LET got == fetchTopPaths(outcome, period.startDateTime, period.endDateTimeExclusive)
  IN  IF got.ok
      THEN [value |-> got.value, warnings |-> warnings]
      ELSE [value |-> <<>>,
            warnings |-> Append(warnings, Warning(<<"Top paths unavailable: ">>, got.error))]

\* fetchSecurityGroups never throws, so the catch branch (which pushes no
\* warning either) is never taken; _warnings is not written
safeFetchSecurity(fullOutcome, actionOnlyOutcome, period, warnings) ==
  LET got == fetchSecurityGroups(fullOutcome, actionOnlyOutcome,
                                 period.startDateTime, period.endDateTimeExclusive)
  IN  [value |-> IF got.result.ok THEN got.result.value ELSE <<>>,
       warnings |-> warnings,
       queries |-> got.queries]

(***************************************************************************)
(* reporting.ts: documents, keys and rows                                  *)
(***************************************************************************)
\* crypto.randomUUID() of invocation r: a fresh identifier
RunId(r) == <<"run", r>>

\* new Date().toISOString() read by invocation r at the named point
nowIso(r, point) == <<"time", r, point>>

\* env.REPORT_TIMEZONE || "UTC"
Timezone == "UTC"

formatMonthLabel(monthKey, timezone) == <<"label", monthKey, timezone>>

\* the template is a pure function of the snapshot
renderReportHtml(snapshot) == <<"html", snapshot>>

\* the bytes the Browser Rendering service returns for the html
PdfOf(html) == <<"pdf", html>>

\* JSON.stringify(snapshot)
JsonStringify(snapshot) == <<"json", snapshot>>

KeyPrefix(clientId, monthKey) == <<"r", "e", "p", "o", "r", "t", "s", "/">> \o <<clientId>> \o <<"/">> \o monthKey

\* a key that leaves the client out of its path: a faulty variant, which C16
\* excludes
HtmlKeyWithoutClient(clientId, monthKey) ==
  <<"r", "e", "p", "o", "r", "t", "s", "/">> \o monthKey \o <<".", "h", "t", "m", "l">>

HtmlKey(clientId, monthKey) == KeyPrefix(clientId, monthKey) \o <<".", "h", "t", "m", "l">>

PdfKey(clientId, monthKey) == KeyPrefix(clientId, monthKey) \o <<".", "p", "d", "f">>

(***************************************************************************)
(* period.ts: buildWeeklyBreakdown.  A Date at midnight UTC is its year,   *)
(* month index and day of the month; only dates written YYYY-MM-DD are     *)
(* parsed.                                                                 *)
(***************************************************************************)
IsLeapYear(y) == (y % 4 = 0 /\ y % 100 # 0) \/ y % 400 = 0

DaysInMonth(y, m0) ==
  IF m0 = 1 THEN (IF IsLeapYear(y) THEN 29 ELSE 28)
  ELSE IF m0 \in {3, 5, 8, 10} THEN 30 ELSE 31

\* new Date(`${date}T00:00:00Z`)
DateOfIso(date) ==
  [y |-> NumberOf(SubSeq(date, 1, 4)),
   m0 |-> NumberOf(SubSeq(date, 6, 7)) - 1,
   d |-> NumberOf(SubSeq(date, 9, 10))]

\* toIsoDate of a Date at midnight UTC of a year in 0..9999
toIsoDay(date) ==
  PadStart(date.y, 4) \o <<"-">> \o PadStart(date.m0 + 1, 2) \o <<"-">> \o PadStart(date.d, 2)

\* date.setUTCDate(n) for n in 0..38: day 0 is the last day of the month
\* before, a day past the end of the month runs into the next month
setUTCDate(date, n) ==
  IF n < 1
  THEN LET before == DateUTC(date.y, date.m0 - 1)
       IN  [y |-> before.y, m0 |-> before.m0, d |-> DaysInMonth(before.y, before.m0) + n]
  ELSE IF n > DaysInMonth(date.y, date.m0)
  THEN LET after == DateUTC(date.y, date.m0 + 1)
       IN  [y |-> after.y, m0 |-> after.m0, d |-> n - DaysInMonth(date.y, date.m0)]
  ELSE [date EXCEPT !.d = n]

\* a < b for two Dates
DateBefore(a, b) ==
  \/ a.y < b.y
  \/ a.y = b.y /\ a.m0 < b.m0
  \/ a.y = b.y /\ a.m0 = b.m0 /\ a.d < b.d

\* Intl.DateTimeFormat("en-US", {month: "short", day: "numeric"}): the month
\* by its index and the day
formatDay(date) == [month |-> date.m0, day |-> date.d]

\* byDate.get(key) after byDate.set(item.date, item) for every item in order:
\* the last point of that date, if any
ByDateGet(daily, key) ==
  LET at == {i \in 1..Len(daily) : daily[i].date = key}
  IN  IF at = {} THEN None ELSE Some(daily[CHOOSE i \in at : \A j \in at : j <= i])

\* the inner loop: the sums of the points of the days from dayCursor up to
\* weekEnd
\* an inner loop that also takes the day the window ends before: a faulty
\* variant, which C30 excludes
RECURSIVE SumWeekThroughEnd(_, _, _)
SumWeekThroughEnd(daily, dayCursor, weekEnd) ==
  IF DateBefore(weekEnd, dayCursor) THEN [requests |-> 0, uniques |-> 0, bytes |-> 0]
  ELSE LET rest == SumWeekThroughEnd(daily, setUTCDate(dayCursor, dayCursor.d + 1), weekEnd)
           point == ByDateGet(daily, toIsoDay(dayCursor))
       IN  IF point = None THEN rest
           ELSE [requests |-> point[1].requests + rest.requests,
                 uniques |-> point[1].uniques + rest.uniques,
                 bytes |-> point[1].bytes + rest.bytes]

\* the inner loop from dayCursor on
RECURSIVE SumWeek(_, _, _)
SumWeek(daily, dayCursor, weekEnd) ==
  IF ~DateBefore(dayCursor, weekEnd) THEN [requests |-> 0, uniques |-> 0, bytes |-> 0]
  ELSE LET rest == SumWeek(daily, setUTCDate(dayCursor, dayCursor.d + 1), weekEnd)
           point == ByDateGet(daily, toIsoDay(dayCursor))
       IN  IF point = None THEN rest
           ELSE [requests |-> point[1].requests + rest.requests,
                 uniques |-> point[1].uniques + rest.uniques,
                 bytes |-> point[1].bytes + rest.bytes]

\* an outer loop that never cuts a window at the end of the month: a faulty
\* variant, which C21 excludes
RECURSIVE WeeklyRowsUnclamped(_, _, _, _)
WeeklyRowsUnclamped(daily, cursor, monthEnd, weekIndex) ==
  IF ~DateBefore(cursor, monthEnd) THEN <<>>
  ELSE LET weekEnd == setUTCDate(cursor, cursor.d + 7)
           sums == SumWeek(daily, cursor, weekEnd)
       IN  <<[label |-> [week |-> weekIndex,
                         from |-> formatDay(cursor),
                         to |-> formatDay(setUTCDate(weekEnd, weekEnd.d - 1))],
              requests |-> sums.requests,
              uniques |-> sums.uniques,
              bytes |-> sums.bytes]>>
           \o WeeklyRowsUnclamped(daily, weekEnd, monthEnd, weekIndex + 1)

\* the outer loop from cursor on
RECURSIVE WeeklyRows(_, _, _, _)
WeeklyRows(daily, cursor, monthEnd, weekIndex) ==
  IF ~DateBefore(cursor, monthEnd) THEN <<>>
  ELSE LET weekStart == cursor
           plusSeven == setUTCDate(cursor, cursor.d + 7)
           weekEnd == IF DateBefore(monthEnd, plusSeven) THEN monthEnd ELSE plusSeven
           sums == SumWeek(daily, weekStart, weekEnd)
           weekEndLabelDate == setUTCDate(weekEnd, weekEnd.d - 1)
       IN  <<[label |-> [week |-> weekIndex,
                         from |-> formatDay(weekStart),
                         to |-> formatDay(weekEndLabelDate)],
              requests |-> sums.requests,
              uniques |-> sums.uniques,
              bytes |-> sums.bytes]>>
           \o WeeklyRows(daily, weekEnd, monthEnd, weekIndex + 1)

buildWeeklyBreakdown(daily, startDate, endDateExclusive) ==
  WeeklyRows(daily, DateOfIso(startDate), DateOfIso(endDateExclusive), 1)

\* the snapshot literal of generateMonthlyReport
BuildSnapshot(r, period, currentDaily, previousDaily, topPaths, securityGroups, pageSpeedBundle, warnings, draw) ==
  LET current == sumTraffic(currentDaily)
      previous == sumTraffic(previousDaily)
  IN  [clientId |-> SITE_CONFIG.clientId,
       zoneId |-> SITE_CONFIG.zoneId,
       domain |-> SITE_CONFIG.domain,
       monthKey |-> period.monthKey,
       monthLabel |-> formatMonthLabel(period.monthKey, Timezone),
       timezone |-> Timezone,
       generatedAt |-> nowIso(r, "generatedAt"),
       author |-> "Bernard McWeeney",
       traffic |-> [requests |-> withDelta(current.requests, previous.requests),
                    uniqueVisitors |-> withDelta(current.uniques, previous.uniques),
                    bandwidth |-> withDelta(current.bytes, previous.bytes),
                    weeklyBreakdown |->
                      buildWeeklyBreakdown(currentDaily, period.startDate,
                                           period.endDateExclusive),
                    topPaths |-> topPaths],
       security |-> buildSecuritySnapshot(securityGroups),
       performance |-> pageSpeedBundle.results,
       wordpress |-> buildWordPressSnapshot(period.monthKey, draw),
       warnings |-> normalizeWarnings(warnings)]

\* the row persistSnapshot binds
SnapshotRow(snapshot, htmlKey, pdfKey) ==
  [client_id |-> snapshot.clientId,
   zone_id |-> snapshot.zoneId,
   domain |-> snapshot.domain,
   report_month |-> snapshot.monthKey,
   timezone |-> snapshot.timezone,
   generated_at |-> snapshot.generatedAt,
   r2_html_key |-> htmlKey,
   r2_pdf_key |-> pdfKey,
   snapshot_json |-> JsonStringify(snapshot)]

\* a plain INSERT into a table without its primary key: a faulty variant,
\* which C4 excludes
UpsertSnapshotInsertOnly(table, excluded) == table \cup {excluded}

\* an upsert whose DO UPDATE leaves snapshot_json alone: a faulty variant,
\* which C5 excludes
UpsertSnapshotKeepingJson(table, excluded) ==
  LET Conflicts(row) == /\ row.client_id = excluded.client_id
                        /\ row.report_month = excluded.report_month
  IN  IF \E row \in table : Conflicts(row)
      THEN {IF Conflicts(row)
            THEN [row EXCEPT !.generated_at = excluded.generated_at,
                             !.r2_html_key = excluded.r2_html_key,
                             !.r2_pdf_key = excluded.r2_pdf_key]
            ELSE row : row \in table}
      ELSE table \cup {excluded}

\* INSERT ... ON CONFLICT(client_id, report_month) DO UPDATE SET ...
UpsertSnapshot(table, excluded) ==
  LET Conflicts(row) == /\ row.client_id = excluded.client_id
                        /\ row.report_month = excluded.report_month
  IN  IF \E row \in table : Conflicts(row)
      THEN {IF Conflicts(row)
            THEN [row EXCEPT !.zone_id = excluded.zone_id,
                             !.domain = excluded.domain,
                             !.timezone = excluded.timezone,
                             !.generated_at = excluded.generated_at,
                             !.r2_html_key = excluded.r2_html_key,
                             !.r2_pdf_key = excluded.r2_pdf_key,
                             !.snapshot_json = excluded.snapshot_json]
            ELSE row : row \in table}
      ELSE table \cup {excluded}

\* the row safeInsertRunStart binds; the other columns are NULL, and
\* warning_count has its default
RunStartRow(runId, monthKey, trigger, startedAt) ==
  [run_id |-> runId,
   client_id |-> SITE_CONFIG.clientId,
   report_month |-> monthKey,
   trigger_type |-> trigger,
   status |-> "started",
   started_at |-> startedAt,
   finished_at |-> None,
   html_key |-> None,
   pdf_key |-> None,
   warning_count |-> 0,
   error_message |-> None]

\* the update without its WHERE clause: a faulty variant, which C1 excludes
UpdateRunFinishAllRows(table, runId, payload) ==
  {[row EXCEPT !.status = payload.status,
               !.finished_at = payload.finishedAt,
               !.html_key = payload.htmlKey,
               !.pdf_key = payload.pdfKey,
               !.warning_count = payload.warningCount,
               !.error_message = payload.errorMessage] : row \in table}

\* UPDATE report_runs SET ... WHERE run_id = ?7
UpdateRunFinish(table, runId, payload) ==
  {IF row.run_id = runId
   THEN [row EXCEPT !.status = payload.status,
                    !.finished_at = payload.finishedAt,
                    !.html_key = payload.htmlKey,
                    !.pdf_key = payload.pdfKey,
                    !.warning_count = payload.warningCount,
                    !.error_message = payload.errorMessage]
   ELSE row : row \in table}

\* a put that keeps the object a key already has: a faulty variant, which
\* C6 excludes
BucketPutIfAbsent(objects, key, body, contentType) ==
  IF \E o \in objects : o.key = key
  THEN objects
  ELSE objects \cup {[key |-> key, body |-> body, contentType |-> contentType]}

\* REPORTS_BUCKET.put(key, body, {httpMetadata: {contentType}})
BucketPut(objects, key, body, contentType) ==
  {o \in objects : o.key # key} \cup {[key |-> key, body |-> body, contentType |-> contentType]}

(***************************************************************************)
(* State                                                                   *)
(***************************************************************************)
VARIABLES
  pc,              \* pc[p]: the await the invocation of surface p is suspended at
  frame,           \* frame[p]: the local variables of that invocation
  report_runs,     \* the rows of table report_runs
  monthly_reports, \* the rows of table monthly_reports
  bucket,          \* the objects of REPORTS_BUCKET
  inflight,        \* the put requests issued and not yet answered
  result,          \* result[p]: what the invocation returned or threw
  finishCalls,     \* finishCalls[p]: the statuses safeUpdateRunFinish was called with
  calls,           \* calls[p]: the upstream requests the invocation issued, in order
  failed,          \* failed[p]: the requests of the invocation that failed, and how
  overlapped,      \* an invocation started while the other one was in progress
  lastUpsert,      \* the pairs <<month, p>>: p made the last upsert for the month
  faults           \* failures injected so far

vars == <<pc, frame, report_runs, monthly_reports, bucket, inflight, result,
          finishCalls, calls, failed, overlapped, lastUpsert, faults>>

\* the trigger surfaces: worker.fetch on /run, and worker.scheduled
Triggers == {"manual", "scheduled"}

\* the month query parameter of a /run request: absent, empty, a month, or
\* a month number out of range
MonthParams ==
  {Undefined, <<>>, <<"2", "0", "2", "6", "-", "0", "1">>, <<"2", "0", "2", "6", "-", "1", "3">>}

\* new Date() at the start of an invocation
Nows == {[y |-> 2026, m0 |-> 2]}

EmptyFrame ==
  [run |-> Null, period |-> Null, trigger |-> Null, startedAt |-> Null, warnings |-> <<>>,
   currentDaily |-> Null, previousDaily |-> Null, snapshot |-> Null,
   html |-> Null, pdf |-> Null, htmlKey |-> Null, pdfKey |-> Null,
   finish |-> Null, error |-> Null]

Init ==
  /\ pc = [p \in Triggers |-> "idle"]
  /\ frame = [p \in Triggers |-> EmptyFrame]
  /\ report_runs = {}
  /\ monthly_reports = {}
  /\ bucket = {}
  /\ inflight = {}
  /\ result = [p \in Triggers |-> Null]
  /\ finishCalls = [p \in Triggers |-> <<>>]
  /\ calls = [p \in Triggers |-> <<>>]
  /\ failed = [p \in Triggers |-> {}]
  /\ overlapped = FALSE
  /\ lastUpsert = {}
  /\ faults = 0

\* the environment may fail a call while its budget of failures lasts
MayFail == faults < MaxFaults

Oks == IF MayFail THEN {TRUE, FALSE} ELSE {TRUE}

Cost(ok) == IF ok THEN 0 ELSE 1

\* the record of the requests of p that failed: name, argument and outcome
FailedRequest(name, arg, outcome) ==
  IF outcome = "ok" THEN {} ELSE {<<name, arg, outcome>>}

Failing(p, ok, name, arg) ==
  [failed EXCEPT ![p] = @ \cup FailedRequest(name, arg, IF ok THEN "ok" ELSE "fail")]

\* p is between the start of its run and the answer to its last request
InProgress(p) == pc[p] \notin {"idle", "done"} \/ \E request \in inflight : request.run = p

(***************************************************************************)
(* generateMonthlyReport                                                   *)
(***************************************************************************)
\* index.ts lines 56-62 and 94-96, reporting.ts lines 315-324: the surface
\* invokes generateMonthlyReport; the period is computed before the try
\* block, and an error of it leaves the function at once; otherwise the run
\* id is drawn and the start record is written
Start(p, monthOverride, now) ==
  /\ pc[p] = "idle"
  /\ p = "scheduled" => monthOverride = Undefined
  /\ LET built == buildMonthPeriod(now, monthOverride)
     IN  IF built.ok
         THEN /\ pc' = [pc EXCEPT ![p] = "insertRunStart"]
              /\ overlapped' = (overlapped \/ \E q \in Triggers \ {p} : InProgress(q))
              /\ frame' = [frame EXCEPT ![p] = [EmptyFrame EXCEPT
                                                  !.run = p,
                                                  !.period = built.value,
                                                  !.trigger = p,
                                                  !.startedAt = nowIso(p, "startedAt")]]
              /\ result' = result
         ELSE /\ pc' = [pc EXCEPT ![p] = "done"]
              /\ frame' = frame
              /\ overlapped' = overlapped
              /\ result' = [result EXCEPT ![p] = Thrown(built.error)]
  /\ UNCHANGED <<report_runs, monthly_reports, bucket, inflight, finishCalls, calls, failed,
                 lastUpsert, faults>>

\* a catch block that reports 'success': a faulty variant, which C2 excludes
CatchRecordingSuccess(p, error) ==
  /\ pc' = [pc EXCEPT ![p] = "updateRunFinish"]
  /\ frame' = [frame EXCEPT ![p].error = error,
                            ![p].finish = [status |-> "success",
                                           finishedAt |-> nowIso(frame[p].run, "finishedAt"),
                                           htmlKey |-> None,
                                           pdfKey |-> None,
                                           warningCount |-> Len(frame[p].warnings),
                                           errorMessage |-> Some(truncateErrorMessage(error))]]
  /\ finishCalls' = [finishCalls EXCEPT ![p] = Append(@, "success")]

\* a catch block that rethrows without the finish update: a faulty variant,
\* which C29 excludes
CatchWithoutFinish(p, error) ==
  /\ pc' = [pc EXCEPT ![p] = "done"]
  /\ frame' = [frame EXCEPT ![p].error = error]
  /\ finishCalls' = finishCalls

\* the catch block, lines 408-414: safeUpdateRunFinish is called with 'failed'
Catch(p, error) ==
  /\ pc' = [pc EXCEPT ![p] = "updateRunFinish"]
  /\ frame' = [frame EXCEPT ![p].error = error,
                            ![p].finish = [status |-> "failed",
                                           finishedAt |-> nowIso(frame[p].run, "finishedAt"),
                                           htmlKey |-> None,
                                           pdfKey |-> None,
                                           warningCount |-> Len(frame[p].warnings),
                                           errorMessage |-> Some(truncateErrorMessage(error))]]
  /\ finishCalls' = [finishCalls EXCEPT ![p] = Append(@, "failed")]

\* a run that issues the calls of both stages at once: a faulty variant,
\* which C26 excludes
InsertRunStartReturnsFanningOut(p, ok) ==
  /\ pc[p] = "insertRunStart"
  /\ report_runs' = IF ok
                    THEN report_runs \cup {RunStartRow(RunId(frame[p].run),
                                                       frame[p].period.monthKey,
                                                       frame[p].trigger, frame[p].startedAt)}
                    ELSE report_runs
  /\ pc' = [pc EXCEPT ![p] = "traffic"]
  /\ calls' = [calls EXCEPT ![p] =
                 @ \o <<<<"traffic", "current">>, <<"traffic", "previous">>,
                        <<"topPaths", "">>, <<"securityFull", "">>>>]
  /\ faults' = faults + Cost(ok)
  /\ failed' = Failing(p, ok, "insertRunStart", "")
  /\ UNCHANGED <<frame, monthly_reports, bucket, inflight, result, finishCalls, overlapped,
                 lastUpsert>>

\* a start insert whose D1 failure is thrown to the caller: a faulty variant,
\* which C14 excludes
InsertRunStartReturnsThrowing(p, ok) ==
  /\ pc[p] = "insertRunStart"
  /\ report_runs' = IF ok
                    THEN report_runs \cup {RunStartRow(RunId(frame[p].run),
                                                       frame[p].period.monthKey,
                                                       frame[p].trigger, frame[p].startedAt)}
                    ELSE report_runs
  /\ pc' = [pc EXCEPT ![p] = IF ok THEN "traffic" ELSE "done"]
  /\ calls' = [calls EXCEPT ![p] =
                 IF ok THEN @ \o <<<<"traffic", "current">>, <<"traffic", "previous">>>> ELSE @]
  /\ result' = [result EXCEPT ![p] = IF ok THEN @ ELSE Thrown(Error(D1FailedMessage))]
  /\ faults' = faults + Cost(ok)
  /\ failed' = Failing(p, ok, "insertRunStart", "")
  /\ UNCHANGED <<frame, monthly_reports, bucket, inflight, finishCalls, overlapped, lastUpsert>>

\* safeInsertRunStart returns (a D1 failure is logged and swallowed); the two
\* traffic fetches are issued
InsertRunStartReturns(p, ok) ==
  /\ pc[p] = "insertRunStart"
  /\ report_runs' = IF ok
                    THEN report_runs \cup {RunStartRow(RunId(frame[p].run),
                                                       frame[p].period.monthKey,
                                                       frame[p].trigger, frame[p].startedAt)}
                    ELSE report_runs
  /\ pc' = [pc EXCEPT ![p] = "traffic"]
  /\ calls' = [calls EXCEPT ![p] = @ \o <<<<"traffic", "current">>, <<"traffic", "previous">>>>]
  /\ faults' = faults + Cost(ok)
  /\ failed' = Failing(p, ok, "insertRunStart", "")
  /\ UNCHANGED <<frame, monthly_reports, bucket, inflight, result, finishCalls, overlapped,
                 lastUpsert>>

\* outcomes of a GraphQL request that the budget of failures allows; the
\* plan limitation is an answer to the firewall events query
Outcomes == IF MayFail THEN GraphqlOutcomes \ {"noaccess"} ELSE {"ok"}

SecurityOutcomes == IF MayFail THEN GraphqlOutcomes ELSE {"ok"}

FailCost(outcome) == IF outcome = "ok" THEN 0 ELSE 1

\* outcomes of the two probes of one url
ProbeOutcomes ==
  {probe \in [mobile : {"ok", "fail"}, desktop : {"ok", "fail"}, first : {"mobile", "desktop"}] :
     (probe.first = "desktop") => (probe.mobile = "fail" /\ probe.desktop = "fail")}

ProbeCost(probe) == FailCost(probe.mobile) + FailCost(probe.desktop)

UniqueUrls == FilterNonEmpty(Dedupe(SITE_CONFIG.pagespeedUrls))

UrlSet == {UniqueUrls[i] : i \in 1..Len(UniqueUrls)}

RECURSIVE ProbesCost(_, _)
ProbesCost(probes, urls) ==
  IF urls = {} THEN 0
  ELSE LET url == CHOOSE u \in urls : TRUE
       IN  ProbeCost(probes[url]) + ProbesCost(probes, urls \ {url})

\* the requests the loop of fetchPageSpeedForUrls issues for the urls
ProbeCalls(urls) ==
  [i \in 1..(2 * Len(urls)) |->
     IF i % 2 = 1 THEN <<"pagespeed mobile", urls[(i + 1) \div 2]>>
     ELSE <<"pagespeed desktop", urls[i \div 2]>>]

\* a first stage that takes the previous month for empty when its fetch
\* fails: a faulty variant, which C7 excludes
TrafficReturnsDegrading(p, current, previous, first) ==
  /\ pc[p] = "traffic"
  /\ FailCost(current) + FailCost(previous) <= MaxFaults - faults
  /\ (first = "previous") => (current # "ok" /\ previous # "ok")
  /\ faults' = faults + FailCost(current) + FailCost(previous)
  /\ failed' = [failed EXCEPT ![p] =
                  @ \cup FailedRequest("traffic", "current", current)
                    \cup FailedRequest("traffic", "previous", previous)]
  /\ LET period == frame[p].period
         currentDaily == fetchTrafficDaily(current, period.startDate, period.endDateExclusive)
         previousDaily == fetchTrafficDaily(previous, period.prevStartDate,
                                            period.prevEndDateExclusive)
     IN  IF currentDaily.ok
         THEN /\ pc' = [pc EXCEPT ![p] = "analytics"]
              /\ frame' = [frame EXCEPT ![p].currentDaily = currentDaily.value,
                                        ![p].previousDaily =
                                           IF previousDaily.ok THEN previousDaily.value ELSE <<>>]
              /\ calls' = [calls EXCEPT ![p] =
                             @ \o <<<<"topPaths", "">>, <<"securityFull", "">>>>
                               \o ProbeCalls(SubSeq(UniqueUrls, 1, Min(1, Len(UniqueUrls))))]
              /\ finishCalls' = finishCalls
         ELSE /\ Catch(p, currentDaily.error)
              /\ calls' = calls
  /\ UNCHANGED <<report_runs, monthly_reports, bucket, inflight, result, overlapped, lastUpsert>>

\* lines 327-339: Promise.all of the two traffic fetches settles.  It rejects
\* with the rejection that comes first; when both fetches fail that is
\* either one.  When both succeed, the three calls of the second stage are
\* issued: each runs up to its first request.
TrafficReturns(p, current, previous, first) ==
  /\ pc[p] = "traffic"
  /\ FailCost(current) + FailCost(previous) <= MaxFaults - faults
  /\ (first = "previous") => (current # "ok" /\ previous # "ok")
  /\ faults' = faults + FailCost(current) + FailCost(previous)
  /\ failed' = [failed EXCEPT ![p] =
                  @ \cup FailedRequest("traffic", "current", current)
                    \cup FailedRequest("traffic", "previous", previous)]
  /\ LET period == frame[p].period
         currentDaily == fetchTrafficDaily(current, period.startDate, period.endDateExclusive)
         previousDaily == fetchTrafficDaily(previous, period.prevStartDate,
                                            period.prevEndDateExclusive)
     IN  IF currentDaily.ok /\ previousDaily.ok
         THEN /\ pc' = [pc EXCEPT ![p] = "analytics"]
              /\ frame' = [frame EXCEPT ![p].currentDaily = currentDaily.value,
                                        ![p].previousDaily = previousDaily.value]
              /\ calls' = [calls EXCEPT ![p] =
                             @ \o <<<<"topPaths", "">>, <<"securityFull", "">>>>
                               \o ProbeCalls(SubSeq(UniqueUrls, 1, Min(1, Len(UniqueUrls))))]
              /\ finishCalls' = finishCalls
         ELSE /\ Catch(p, IF ~currentDaily.ok /\ (previousDaily.ok \/ first = "current")
                          THEN currentDaily.error
                          ELSE previousDaily.error)
              /\ calls' = calls
  /\ UNCHANGED <<report_runs, monthly_reports, bucket, inflight, result, overlapped, lastUpsert>>

\* The values drawn matter only by being equal or different, so the manual
\* invocation takes the first value and the scheduled one may take either.
DrawsFor(p) == IF p = "manual" THEN {"draw-a"} ELSE WordPressDraws

\* lines 335-372: the second stage settles (none of its three calls can
\* reject), the snapshot is built, the html is rendered and the PDF
\* conversion is requested.  topPaths, full and actionOnly are the outcomes
\* of the GraphQL requests, probes those of the PageSpeed probes, draw the
\* random draw of buildWordPressSnapshot.
AnalyticsReturn(p, topPaths, full, actionOnly, probes, draw) ==
  /\ pc[p] = "analytics"
  /\ pc' = [pc EXCEPT ![p] = "pdf"]
  /\ draw \in DrawsFor(p)
  /\ LET period == frame[p].period
         paths == safeFetchTopPaths(topPaths, period, frame[p].warnings)
         security == safeFetchSecurity(full, actionOnly, period, paths.warnings)
         pageSpeedBundle == fetchPageSpeedForUrls(SITE_CONFIG.pagespeedUrls, probes)
         warnings == security.warnings \o pageSpeedBundle.warnings
         snapshot == BuildSnapshot(frame[p].run, period, frame[p].currentDaily,
                                   frame[p].previousDaily, paths.value, security.value,
                                   pageSpeedBundle, warnings, draw)
         asked == Len(security.queries) = 2
         cost == FailCost(topPaths) + FailCost(full)
                 + (IF asked THEN FailCost(actionOnly) ELSE 0) + ProbesCost(probes, UrlSet)
     IN  /\ ~asked => actionOnly = "ok"
         /\ cost <= MaxFaults - faults
         /\ faults' = faults + cost
         /\ failed' = [failed EXCEPT ![p] =
                         @ \cup FailedRequest("topPaths", "", topPaths)
                           \cup FailedRequest("securityFull", "", full)
                           \cup FailedRequest("securityActionOnly", "", actionOnly)
                           \cup UNION {FailedRequest("pagespeed mobile", url, probes[url].mobile)
                                         \cup FailedRequest("pagespeed desktop", url,
                                                            probes[url].desktop) : url \in UrlSet}]
         /\ frame' = [frame EXCEPT ![p].warnings = warnings,
                                   ![p].snapshot = snapshot,
                                   ![p].html = renderReportHtml(snapshot)]
         /\ calls' = [calls EXCEPT ![p] =
                        @ \o (IF asked THEN <<<<"securityActionOnly", "">>>> ELSE <<>>)
                          \o ProbeCalls(SubSeq(UniqueUrls, 2, Len(UniqueUrls)))
                          \o <<<<"pdf", "">>>>]
  /\ UNCHANGED <<report_runs, monthly_reports, bucket, inflight, result, finishCalls,
                 overlapped, lastUpsert>>

\* a conversion whose response status is not looked at, so that the body of
\* an error response is stored as the PDF: a faulty variant, which C3 excludes
PdfReturnsUnchecked(p, ok) ==
  /\ pc[p] = "pdf"
  /\ faults' = faults + Cost(ok)
  /\ failed' = Failing(p, ok, "pdf", "")
  /\ LET htmlKey == HtmlKey(SITE_CONFIG.clientId, frame[p].period.monthKey)
         pdfKey == PdfKey(SITE_CONFIG.clientId, frame[p].period.monthKey)
         pdf == IF ok THEN PdfOf(frame[p].html) ELSE <<"error", frame[p].html>>
     IN  /\ frame' = [frame EXCEPT ![p].pdf = pdf,
                                   ![p].htmlKey = htmlKey,
                                   ![p].pdfKey = pdfKey]
         /\ inflight' = inflight \cup
              {[run |-> frame[p].run, key |-> htmlKey, body |-> frame[p].html,
                contentType |-> "text/html; charset=utf-8"],
               [run |-> frame[p].run, key |-> pdfKey, body |-> pdf,
                contentType |-> "application/pdf"]}
         /\ pc' = [pc EXCEPT ![p] = "puts"]
         /\ finishCalls' = finishCalls
  /\ UNCHANGED <<report_runs, monthly_reports, bucket, result, calls, overlapped, lastUpsert>>

\* lines 372-386: renderPdfFromHtml settles; on success the two puts are issued
PdfReturns(p, ok) ==
  /\ pc[p] = "pdf"
  /\ faults' = faults + Cost(ok)
  /\ failed' = Failing(p, ok, "pdf", "")
  /\ IF ok
     THEN LET htmlKey == HtmlKey(SITE_CONFIG.clientId, frame[p].period.monthKey)
              pdfKey == PdfKey(SITE_CONFIG.clientId, frame[p].period.monthKey)
              pdf == PdfOf(frame[p].html)
          IN  /\ pc' = [pc EXCEPT ![p] = "puts"]
              /\ frame' = [frame EXCEPT ![p].pdf = pdf,
                                        ![p].htmlKey = htmlKey,
                                        ![p].pdfKey = pdfKey]
              /\ inflight' = inflight \cup
                   {[run |-> frame[p].run, key |-> htmlKey, body |-> frame[p].html,
                     contentType |-> "text/html; charset=utf-8"],
                    [run |-> frame[p].run, key |-> pdfKey, body |-> pdf,
                     contentType |-> "application/pdf"]}
              /\ finishCalls' = finishCalls
     ELSE /\ Catch(p, Error(PdfFailedMessage))
          /\ inflight' = inflight
  /\ UNCHANGED <<report_runs, monthly_reports, bucket, result, calls, overlapped, lastUpsert>>

\* a finish call that reports 'failed' for a run with warnings: a faulty
\* variant, which C8 excludes
FinishByWarnings(p) ==
  /\ pc' = [pc EXCEPT ![p] = "updateRunFinish"]
  /\ frame' = [frame EXCEPT ![p].finish =
                  [status |-> IF Len(frame[p].snapshot.warnings) = 0 THEN "success" ELSE "failed",
                   finishedAt |-> nowIso(frame[p].run, "finishedAt"),
                   htmlKey |-> frame[p].htmlKey,
                   pdfKey |-> frame[p].pdfKey,
                   warningCount |-> Len(frame[p].snapshot.warnings),
                   errorMessage |-> None],
                            ![p].error = Error(D1FailedMessage)]
  /\ finishCalls' = [finishCalls EXCEPT ![p] =
                       Append(@, IF Len(frame[p].snapshot.warnings) = 0 THEN "success"
                                 ELSE "failed")]

\* the call of safeUpdateRunFinish with 'success', lines 392-398
FinishSuccess(p) ==
  /\ pc' = [pc EXCEPT ![p] = "updateRunFinish"]
  /\ frame' = [frame EXCEPT ![p].finish = [status |-> "success",
                                           finishedAt |-> nowIso(frame[p].run, "finishedAt"),
                                           htmlKey |-> frame[p].htmlKey,
                                           pdfKey |-> frame[p].pdfKey,
                                           warningCount |-> Len(frame[p].snapshot.warnings),
                                           errorMessage |-> None]]
  /\ finishCalls' = [finishCalls EXCEPT ![p] = Append(@, "success")]

\* the invocation, if any, that awaits the puts of run r
Awaiting(r) == {p \in Triggers : frame[p].run = r /\ pc[p] = "puts"}

\* lines 379-389: one of the two puts is answered.  A put that succeeds has
\* stored its object.  Promise.all rejects at the first failure, and the
\* other put is not cancelled: its answer comes whatever the invocation has
\* done since.  When both have succeeded persistSnapshot is called.
PutLands(request, ok) ==
  /\ request \in inflight
  /\ inflight' = inflight \ {request}
  /\ faults' = faults + Cost(ok)
  /\ failed' = Failing(request.run, ok, "put", request.contentType)
  /\ bucket' = IF ok
               THEN BucketPut(bucket, request.key, request.body, request.contentType)
               ELSE bucket
  /\ IF Awaiting(request.run) = {}
     THEN UNCHANGED <<pc, frame, finishCalls>>
     ELSE LET p == CHOOSE q \in Awaiting(request.run) : TRUE
          IN  IF ~ok
              THEN Catch(p, Error(R2FailedMessage))
              ELSE IF \E other \in inflight' : other.run = request.run
              THEN UNCHANGED <<pc, frame, finishCalls>>
              ELSE /\ pc' = [pc EXCEPT ![p] = "persistSnapshot"]
                   /\ UNCHANGED <<frame, finishCalls>>
  /\ UNCHANGED <<report_runs, monthly_reports, result, calls, overlapped, lastUpsert>>

\* a run that goes on to its 'success' finish call when the upsert fails: a
\* faulty variant, which C12 excludes
PersistSnapshotReturnsUnchecked(p, ok) ==
  /\ pc[p] = "persistSnapshot"
  /\ faults' = faults + Cost(ok)
  /\ failed' = Failing(p, ok, "persistSnapshot", "")
  /\ monthly_reports' =
       IF ok
       THEN UpsertSnapshot(monthly_reports,
                           SnapshotRow(frame[p].snapshot, frame[p].htmlKey, frame[p].pdfKey))
       ELSE monthly_reports
  /\ lastUpsert' =
       IF ok
       THEN {e \in lastUpsert : e[1] # frame[p].snapshot.monthKey}
              \cup {<<frame[p].snapshot.monthKey, p>>}
       ELSE lastUpsert
  /\ FinishSuccess(p)
  /\ UNCHANGED <<report_runs, bucket, inflight, result, calls, overlapped>>

\* lines 389-398: persistSnapshot settles
PersistSnapshotReturns(p, ok) ==
  /\ pc[p] = "persistSnapshot"
  /\ faults' = faults + Cost(ok)
  /\ failed' = Failing(p, ok, "persistSnapshot", "")
  /\ IF ok
     THEN /\ monthly_reports' =
               UpsertSnapshot(monthly_reports,
                              SnapshotRow(frame[p].snapshot, frame[p].htmlKey, frame[p].pdfKey))
          /\ lastUpsert' = {e \in lastUpsert : e[1] # frame[p].snapshot.monthKey}
                             \cup {<<frame[p].snapshot.monthKey, p>>}
          /\ FinishSuccess(p)
     ELSE /\ monthly_reports' = monthly_reports
          /\ lastUpsert' = lastUpsert
          /\ Catch(p, Error(D1FailedMessage))
  /\ UNCHANGED <<report_runs, bucket, inflight, result, calls, overlapped>>

\* the value generateMonthlyReport returns, lines 401-407
GeneratedReport(p) ==
  [runId |-> RunId(frame[p].run),
   monthKey |-> frame[p].period.monthKey,
   htmlKey |-> frame[p].htmlKey,
   pdfKey |-> frame[p].pdfKey,
   snapshot |-> frame[p].snapshot]

\* safeUpdateRunFinish returns (a D1 failure is logged and swallowed); the
\* invocation then returns its report, or rethrows the error it caught
UpdateRunFinishReturns(p, ok) ==
  /\ pc[p] = "updateRunFinish"
  /\ pc' = [pc EXCEPT ![p] = "done"]
  /\ faults' = faults + Cost(ok)
  /\ failed' = Failing(p, ok, "updateRunFinish", "")
  /\ report_runs' = IF ok
                    THEN UpdateRunFinish(report_runs, RunId(frame[p].run), frame[p].finish)
                    ELSE report_runs
  /\ result' = [result EXCEPT ![p] = IF frame[p].finish.status = "success"
                                     THEN Returned(GeneratedReport(p))
                                     ELSE Thrown(frame[p].error)]
  /\ UNCHANGED <<frame, monthly_reports, bucket, inflight, finishCalls, calls, overlapped,
                 lastUpsert>>

Next ==
  \/ \E p \in Triggers, monthOverride \in MonthParams, now \in Nows :
       Start(p, monthOverride, now)
  \/ \E p \in Triggers, ok \in Oks : InsertRunStartReturns(p, ok)
  \/ \E p \in Triggers, current \in Outcomes, previous \in Outcomes,
        first \in {"current", "previous"} :
       TrafficReturns(p, current, previous, first)
  \/ \E p \in Triggers, topPaths \in Outcomes, full \in SecurityOutcomes, actionOnly \in Outcomes,
        probes \in [UrlSet -> ProbeOutcomes], draw \in WordPressDraws :
       AnalyticsReturn(p, topPaths, full, actionOnly, probes, draw)
  \/ \E p \in Triggers, ok \in Oks : PdfReturns(p, ok)
  \/ \E request \in inflight, ok \in Oks : PutLands(request, ok)
  \/ \E p \in Triggers, ok \in Oks : PersistSnapshotReturns(p, ok)
  \/ \E p \in Triggers, ok \in Oks : UpdateRunFinishReturns(p, ok)

Spec == Init /\ [][Next]_vars

\* an external call of the invocation of p returns or throws; every answer
\* moves the invocation on, which is compared first
Responds(p) ==
  /\ pc'[p] # pc[p]
  /\ \/ \E ok \in Oks : InsertRunStartReturns(p, ok)
     \/ \E current \in Outcomes, previous \in Outcomes, first \in {"current", "previous"} :
          TrafficReturns(p, current, previous, first)
     \/ \E topPaths \in Outcomes, full \in SecurityOutcomes, actionOnly \in Outcomes,
           probes \in [UrlSet -> ProbeOutcomes], draw \in WordPressDraws :
          AnalyticsReturn(p, topPaths, full, actionOnly, probes, draw)
     \/ \E ok \in Oks : PdfReturns(p, ok)
     \/ \E ok \in Oks : PersistSnapshotReturns(p, ok)
     \/ \E ok \in Oks : UpdateRunFinishReturns(p, ok)

\* a put is answered
PutAnswered == \E request \in inflight, ok \in Oks : PutLands(request, ok)

\* the invocation of p waits for an external call other than the two puts:
\* Responds(p) is enabled exactly in these positions, since an answer
\* without failure is always allowed
Calling(p) ==
  pc[p] \in {"insertRunStart", "traffic", "analytics", "pdf", "persistSnapshot", "updateRunFinish"}

\* the runs of the month that precedes now: no request names another month
\* and the post counts are drawn alike
LiveNext ==
  \/ \E p \in Triggers, now \in Nows : Start(p, Undefined, now)
  \/ \E p \in Triggers, ok \in Oks : InsertRunStartReturns(p, ok)
  \/ \E p \in Triggers, current \in Outcomes, previous \in Outcomes,
        first \in {"current", "previous"} :
       TrafficReturns(p, current, previous, first)
  \/ \E p \in Triggers, topPaths \in Outcomes, full \in SecurityOutcomes, actionOnly \in Outcomes,
        probes \in [UrlSet -> ProbeOutcomes] :
       AnalyticsReturn(p, topPaths, full, actionOnly, probes, "draw-a")
  \/ \E p \in Triggers, ok \in Oks : PdfReturns(p, ok)
  \/ PutAnswered
  \/ \E p \in Triggers, ok \in Oks : PersistSnapshotReturns(p, ok)
  \/ \E p \in Triggers, ok \in Oks : UpdateRunFinishReturns(p, ok)

\* every external call eventually returns or throws: weak fairness of each
\* invocation's answers, with ENABLED <<Responds(p)>>_vars written as
\* Calling(p), and weak fairness of the answers to the puts; a surface need
\* not be triggered
LiveSpec ==
  /\ Init
  /\ [][LiveNext]_vars
  /\ \A p \in Triggers : ([]<>(~Calling(p))) \/ ([]<><<Responds(p)>>_vars)
  /\ WF_vars(PutAnswered)

(***************************************************************************)
(* Period calculation.  The surfaces invoke generateMonthlyReport with     *)
(* overrides and reference instants drawn from wider sets, and the         *)
(* invocation is followed up to the value buildMonthPeriod returns or the  *)
(* error it throws.                                                        *)
(***************************************************************************)
\* the string `${YYYY}-${MM}` of a year of at most four digits and a number
\* of at most two
MonthKeyOf(year, month) == PadStart(year, 4) \o <<"-">> \o PadStart(month, 2)

OverrideYears == {0, 50, 99, 100, 1999, 2026, 9998, 9999}

OverrideMonths == {1, 2, 12}

\* the overrides MONTH_KEY_REGEX matches and whose month is in 01..12
ValidOverrides == {MonthKeyOf(year, month) : year \in OverrideYears, month \in OverrideMonths}

\* strings url.searchParams.get("month") can return that are no such override
InvalidOverrides ==
  {<<>>,
   <<"2", "0", "2", "6", "-", "1", "3">>,
   <<"2", "0", "2", "6", "-", "0", "0">>,
   <<"2", "0", "2", "6", "-", "1">>,
   <<"2", "6", "-", "0", "1">>,
   <<"2", "0", "2", "6", "/", "0", "1">>,
   <<"2", "0", "2", "6", "0", "1">>,
   <<"a", "b", "c", "d", "-", "e", "f">>,
   <<"2", "0", "2", "6", "-", "0", "1", "-", "0", "1">>,
   <<" ", "2", "0", "2", "6", "-", "0", "1">>}

\* the strings a request can carry as its month parameter
PeriodMonthParams == ValidOverrides \cup InvalidOverrides

\* reference instants by their UTC fields: year, month index, day of the month
\* and millisecond of the day; the first and the last instant of January,
\* February, March and December 2026 and of January 2027, and one in between
PeriodNows ==
  {[y |-> 2026, m0 |-> 0, d |-> 1, ms |-> 0],
   [y |-> 2026, m0 |-> 0, d |-> 31, ms |-> 86399999],
   [y |-> 2026, m0 |-> 1, d |-> 1, ms |-> 0],
   [y |-> 2026, m0 |-> 1, d |-> 28, ms |-> 86399999],
   [y |-> 2026, m0 |-> 2, d |-> 1, ms |-> 0],
   [y |-> 2026, m0 |-> 2, d |-> 17, ms |-> 43200000],
   [y |-> 2026, m0 |-> 2, d |-> 31, ms |-> 86399999],
   [y |-> 2026, m0 |-> 11, d |-> 1, ms |-> 0],
   [y |-> 2026, m0 |-> 11, d |-> 31, ms |-> 86399999],
   [y |-> 2027, m0 |-> 0, d |-> 1, ms |-> 0],
   [y |-> 2027, m0 |-> 0, d |-> 31, ms |-> 86399999]}

PeriodNext ==
  \/ \E p \in Triggers, now \in PeriodNows : Start(p, Undefined, now)
  \/ \E p \in Triggers, monthOverride \in PeriodMonthParams, now \in PeriodNows :
       Start(p, monthOverride, now)

PeriodSpec == Init /\ [][PeriodNext]_vars

(***************************************************************************)
(* The pure helpers.  A helper is called with arguments drawn from bounded *)
(* sets and returns its value: frame is the call (the name of the helper   *)
(* and its arguments), pc is "called" or "returned", result is the value   *)
(* returned.  No run is in progress and the stores are empty.              *)
(***************************************************************************)
NoRun ==
  /\ report_runs = {}
  /\ monthly_reports = {}
  /\ bucket = {}
  /\ inflight = {}
  /\ finishCalls = [p \in Triggers |-> <<>>]
  /\ calls = [p \in Triggers |-> <<>>]
  /\ failed = [p \in Triggers |-> {}]
  /\ overlapped = FALSE
  /\ lastUpsert = {}
  /\ faults = 0

\* the helper named fn returns value
Return(fn, value) ==
  /\ pc = "called"
  /\ frame.fn = fn
  /\ pc' = "returned"
  /\ result' = value
  /\ UNCHANGED <<frame, report_runs, monthly_reports, bucket, inflight, finishCalls, calls,
                 failed, overlapped, lastUpsert, faults>>

HelperYears == {2023, 2024, 2100}

\* the first day of the month after month `month` (1..12) of `year`
FirstDayAfter(year, month) ==
  IF month = 12 THEN toIsoDay([y |-> year + 1, m0 |-> 0, d |-> 1])
  ELSE toIsoDay([y |-> year, m0 |-> month, d |-> 1])

\* the point the upstream reports for day d of a month
DayPoint(year, month, d) ==
  [date |-> toIsoDay([y |-> year, m0 |-> month - 1, d |-> d]),
   requests |-> 10 + d, uniques |-> 1 + (d % 3), bytes |-> d * d]

\* the days of a month of `length` days the upstream has data for
DaySelections(length) ==
  {1..length, {}, {1}, {length}, {d \in 1..length : d % 2 = 1}, 7..8, {8, 28, length}}

\* the points of the days in `days`, by date ascending
RECURSIVE DailyOf(_, _, _)
DailyOf(year, month, days) ==
  IF days = {} THEN <<>>
  ELSE LET last == CHOOSE d \in days : \A e \in days : e <= d
       IN  Append(DailyOf(year, month, days \ {last}), DayPoint(year, month, last))

\* the calls for a month: its bounds as buildMonthPeriod writes them, and
\* the points of one selection of its days
WeeklyCallsFor(year, month) ==
  {[fn |-> "buildWeeklyBreakdown",
    daily |-> DailyOf(year, month, days),
    startDate |-> toIsoDay([y |-> year, m0 |-> month - 1, d |-> 1]),
    endDateExclusive |-> FirstDayAfter(year, month)] :
     days \in DaySelections(DaysInMonth(year, month - 1))}

WeeklyCalls == UNION {WeeklyCallsFor(year, month) : year \in HelperYears, month \in 1..12}

MaxTotal == 6

\* totals of a month: the small ones, and those of the examples
Totals == 0..MaxTotal \cup {100, 150, 8000, 10000}

WithDeltaCalls ==
  {[fn |-> "withDelta", current |-> current, previous |-> previous] :
     current \in Totals, previous \in Totals}

MaxGroups == 4

\* the groups the firewall events query can return
SecurityGroups ==
  [source : {"waf", "botFight"}, action : {"block", "log"}, count : {1, 2}]

SecurityCalls ==
  {[fn |-> "buildSecuritySnapshot", groups |-> groups] :
     groups \in UNION {[1..n -> SecurityGroups] : n \in 0..MaxGroups}}

MaxUrls == 3

\* the entries a configured list of urls can hold
ConfiguredUrls == {"", "https://a.example/", "https://b.example/"}

PageSpeedCalls ==
  {[fn |-> "fetchPageSpeedForUrls", urls |-> urls, probes |-> probes] :
     urls \in UNION {[1..n -> ConfiguredUrls] : n \in 0..MaxUrls},
     probes \in [ConfiguredUrls \ {""} -> ProbeOutcomes]}

\* the bundle fetchPageSpeedForUrls returns and the requests its loop issued
PageSpeedRun(urls, probes) ==
  [bundle |-> fetchPageSpeedForUrls(urls, probes),
   requests |-> ProbeCalls(FilterNonEmpty(Dedupe(urls)))]

\* httpRequests1dGroups as the upstream can answer the query of lines
\* 410-430: one group for each date it has data for, every date within the
\* filter; the order of the groups and a group without its date dimension
\* are left to the upstream
Reverse(seq) == [i \in 1..Len(seq) |-> seq[Len(seq) + 1 - i]]

Dateless == [date |-> <<>>, requests |-> 7, uniques |-> 7, bytes |-> 7]

Arrangements == {"ascending", "descending", "dateless"}

GroupsOf(year, month, days, arrangement) ==
  CASE arrangement = "ascending" -> DailyOf(year, month, days)
    [] arrangement = "descending" -> Reverse(DailyOf(year, month, days))
    [] OTHER -> <<Dateless>> \o Reverse(DailyOf(year, month, days)) \o <<Dateless>>

\* the month before month `month` of `year`, as <<year, month>>
MonthBefore(year, month) == IF month = 1 THEN <<year - 1, 12>> ELSE <<year, month - 1>>

\* the snapshots of a month: its period as buildMonthPeriod gives it, the
\* groups of the month and the groups of the month before
SnapshotCallsFor(year, month) ==
  LET before == MonthBefore(year, month)
  IN  {[fn |-> "buildSnapshot",
        period |-> buildMonthPeriod([y |-> 2026, m0 |-> 2], MonthKeyOf(year, month)).value,
        groups |-> GroupsOf(year, month, days, arrangement),
        previousGroups |-> DailyOf(before[1], before[2], {1, 15})] :
         days \in DaySelections(DaysInMonth(year, month - 1)), arrangement \in Arrangements}

SnapshotCalls == UNION {SnapshotCallsFor(year, month) : year \in HelperYears, month \in 1..12}

\* lines 332-371 with both traffic queries answered: the adapter's points of
\* the two answers go into the snapshot
SnapshotOf(period, groups, previousGroups) ==
  BuildSnapshot("manual", period, TrafficPointsOf(groups), TrafficPointsOf(previousGroups),
                safeFetchTopPaths("ok", period, <<>>).value,
                safeFetchSecurity("ok", "ok", period, <<>>).value,
                fetchPageSpeedForUrls(SITE_CONFIG.pagespeedUrls,
                                      [url \in UrlSet |->
                                         [mobile |-> "ok", desktop |-> "ok", first |-> "mobile"]]),
                <<>>, "draw-a")

HelperInit ==
  /\ pc = "called"
  /\ result = Null
  /\ NoRun
  /\ \/ frame \in WeeklyCalls
     \/ frame \in WithDeltaCalls
     \/ frame \in SecurityCalls
     \/ frame \in PageSpeedCalls
     \/ frame \in SnapshotCalls

HelperNext ==
  \/ Return("buildWeeklyBreakdown",
            buildWeeklyBreakdown(frame.daily, frame.startDate, frame.endDateExclusive))
  \/ Return("withDelta", withDelta(frame.current, frame.previous))
  \/ Return("buildSecuritySnapshot", buildSecuritySnapshot(frame.groups))
  \/ Return("fetchPageSpeedForUrls", PageSpeedRun(frame.urls, frame.probes))
  \/ Return("buildSnapshot", SnapshotOf(frame.period, frame.groups, frame.previousGroups))

HelperSpec == HelperInit /\ [][HelperNext]_vars

(***************************************************************************)
(* Properties                                                              *)
(***************************************************************************)
\* the rows of report_runs of the run of invocation p
RunRows(p) == {row \in report_runs : row.run_id = RunId(p)}

Terminal(row) == row.status \in {"success", "failed"}

\* the names and arguments of the requests of p that failed
FailedCalls(p) == {<<f[1], f[2]>> : f \in failed[p]}

\* the writes of the run tracker
TrackerWrites == {<<"insertRunStart", "">>, <<"updateRunFinish", "">>}

\* the steps of a run up to and including the upsert whose failure is not
\* degraded to a warning
FatalSteps ==
  {<<"traffic", "current">>, <<"traffic", "previous">>, <<"pdf", "">>,
   <<"put", "text/html; charset=utf-8">>, <<"put", "application/pdf">>,
   <<"persistSnapshot", "">>}

\* the invocation whose clock stamped the document or the row
BodyOrigin(body) ==
  IF body[1] = "html" THEN body[2].generatedAt[2] ELSE body[2][2].generatedAt[2]

RowOrigin(row) == row.generated_at[2]

\* p has issued a put or an upsert
Issued(p) ==
  \/ \E request \in inflight : request.run = p
  \/ \E object \in bucket : BodyOrigin(object.body) = p
  \/ pc[p] = "persistSnapshot"
  \/ \E row \in monthly_reports : RowOrigin(row) = p

SnapshotFields ==
  {"clientId", "zoneId", "domain", "monthKey", "monthLabel", "timezone", "generatedAt",
   "author", "traffic", "security", "performance", "wordpress", "warnings"}

\* p holds the whole snapshot, the html rendered from it and the PDF
\* converted from that html
Converted(p) ==
  /\ pc[p] \in {"puts", "persistSnapshot", "updateRunFinish", "done"}
  /\ <<"pdf", "">> \notin FailedCalls(p)
  /\ DOMAIN frame[p].snapshot = SnapshotFields
  /\ frame[p].html = renderReportHtml(frame[p].snapshot)
  /\ frame[p].pdf = PdfOf(frame[p].html)

\* C1: the status of a run record only ever goes from 'started' to 'success'
\* or to 'failed': a record is created 'started', a record that is 'success'
\* or 'failed' is never changed again, and no record disappears or is
\* duplicated.
C1_RunStatusOnlyLeavesStarted ==
  [][
    /\ \A row \in report_runs :
         \E next \in report_runs' :
           /\ next.run_id = row.run_id
           /\ Terminal(row) => next = row
           /\ next.status \in {"started", "success", "failed"}
    /\ \A next \in report_runs' :
         (\A row \in report_runs : row.run_id # next.run_id) => next.status = "started"
    /\ \A a, b \in report_runs' : a.run_id = b.run_id => a = b
  ]_vars

\* one run is recorded 'success' and the other one 'failed'
C1_Witness ==
  /\ \E row \in report_runs : row.status = "success"
  /\ \E row \in report_runs : row.status = "failed"

\* the finish update was attempted once, with 'success' exactly when no step
\* through the upsert failed
FinishedOnce(p) ==
  /\ Len(finishCalls[p]) = 1
  /\ finishCalls[p][1] = "success" <=> FailedCalls(p) \cap FatalSteps = {}

\* C2 as stated: in every execution the finish update is attempted exactly
\* once, with 'success' if and only if every step through the upsert
\* completed.
C2_FinishOnceInEveryExecution ==
  \A p \in Triggers : pc[p] = "done" => FinishedOnce(p)

\* C2: in every execution whose month override is accepted the finish update
\* is attempted exactly once, with 'success' if and only if every step
\* through the upsert completed; an execution whose month override is
\* rejected starts no run and attempts no finish update.
C2_FinishOncePerRun ==
  \A p \in Triggers :
    /\ Len(finishCalls[p]) <= 1
    /\ pc[p] \in {"updateRunFinish", "done"} /\ frame[p].run # Null => FinishedOnce(p)
    /\ pc[p] = "done" /\ frame[p].run = Null =>
         /\ finishCalls[p] = <<>>
         /\ ~result[p].ok
         /\ RunRows(p) = {}

\* one execution finished with 'success', the other one with 'failed'
C2_Witness ==
  \E p, q \in Triggers :
    /\ pc[p] = "done" /\ finishCalls[p] = <<"success">>
    /\ pc[q] = "done" /\ finishCalls[q] = <<"failed">>

ConversionFailed(p) == <<"pdf", "">> \in FailedCalls(p)

\* what C3 says of the stores: no put and no upsert before the conversion has
\* succeeded, and none at all when it fails
C3_Stores ==
  \A p \in Triggers :
    /\ Issued(p) => /\ Converted(p)
                    /\ \A request \in inflight :
                         request.run = p => request.body \in {frame[p].html, frame[p].pdf}
    /\ ConversionFailed(p) => /\ ~Issued(p)
                              /\ pc[p] \in {"updateRunFinish", "done"}
                              /\ finishCalls[p] = <<"failed">>

\* C3 as stated: no put and no upsert is issued until the snapshot is built
\* and the conversion has succeeded; when the conversion fails the stores
\* are left as they were and the run is recorded 'failed'.
C3_ConversionFailureRecorded ==
  /\ C3_Stores
  /\ \A p \in Triggers :
       pc[p] = "done" /\ ConversionFailed(p) => \E row \in RunRows(p) : row.status = "failed"

\* C3: no put and no upsert is issued until the snapshot is built and the
\* conversion has succeeded; when the conversion fails the stores are left
\* as they were and the finish update is attempted with 'failed': the run is
\* recorded 'failed' when both writes of the run tracker succeed, and is
\* never recorded 'success'.
C3_ConversionBeforeStores ==
  /\ C3_Stores
  /\ \A p \in Triggers :
       pc[p] = "done" /\ ConversionFailed(p) =>
         /\ \A row \in RunRows(p) : row.status # "success"
         /\ FailedCalls(p) \cap TrackerWrites = {} =>
              \E row \in RunRows(p) : row.status = "failed"

\* a conversion failed and is recorded, while the other run has its
\* documents stored
C3_Witness ==
  \E p, q \in Triggers :
    /\ pc[p] = "done" /\ ConversionFailed(p)
    /\ \E row \in RunRows(p) : row.status = "failed"
    /\ \E object \in bucket : BodyOrigin(object.body) = q

\* the row invocation p binds
OwnRow(p) == SnapshotRow(frame[p].snapshot, frame[p].htmlKey, frame[p].pdfKey)

SameKey(a, b) == a.client_id = b.client_id /\ a.report_month = b.report_month

\* C4: monthly_reports never holds two rows for one (client, month) pair; the
\* table changes only by the upsert of a run, which leaves the row of its
\* month equal to what that run bound (snapshot, generation time and keys)
\* and leaves the rows of the other months as they were.
C4_OneRowPerMonth ==
  [][
    /\ \A a, b \in monthly_reports' : SameKey(a, b) => a = b
    /\ monthly_reports' # monthly_reports =>
         \E p \in Triggers :
           /\ pc[p] = "persistSnapshot"
           /\ monthly_reports' =
                {row \in monthly_reports : ~SameKey(row, OwnRow(p))} \cup {OwnRow(p)}
    /\ \A p \in Triggers :
         pc[p] = "persistSnapshot" /\ finishCalls'[p] = <<"success">> =>
           OwnRow(p) \in monthly_reports'
  ]_vars

\* two runs for one month have both returned, and the table holds the one
\* row of the second upsert
C4_Witness ==
  \E p, q \in Triggers :
    /\ p # q /\ pc[p] = "done" /\ pc[q] = "done"
    /\ result[p].ok /\ result[q].ok
    /\ result[p].value.monthKey = result[q].value.monthKey
    /\ monthly_reports = {OwnRow(q)}

\* the rows of monthly_reports for a month
MonthRows(monthKey) == {row \in monthly_reports : row.report_month = monthKey}

\* the row of each month is, in every column, the row of the run that made
\* the last upsert for the month
RowOfLastUpsert == \A e \in lastUpsert : MonthRows(e[1]) = {OwnRow(e[2])}

\* p started a run and has returned or thrown
Finished(p) == pc[p] = "done" /\ frame[p].run # Null

\* the run of p has its one record, finalized with what p reported
Finalized(p) ==
  \E row \in RunRows(p) :
    /\ RunRows(p) = {row}
    /\ row.status = finishCalls[p][1]
    /\ row.finished_at = frame[p].finish.finishedAt
    /\ row.report_month = frame[p].period.monthKey

\* two runs for one month overlapped and both have finished
OverlappedForOneMonth ==
  /\ overlapped
  /\ \A p \in Triggers : Finished(p)
  /\ \A p, q \in Triggers : frame[p].period.monthKey = frame[q].period.monthKey

\* C5 as stated: after two overlapping runs for one month the row is, in
\* every column, that of the run whose upsert executed last, and both runs
\* have their own finalized run record.
C5_BothRunsFinalized ==
  OverlappedForOneMonth => /\ RowOfLastUpsert
                           /\ \A p \in Triggers : Finalized(p)

\* C5: the row of a month is at all times, in every column, that of the run
\* whose upsert executed last, whichever run started first; every finished
\* run whose two run-tracker writes succeeded has its own finalized record,
\* and a run-tracker write that fails leaves the record absent or 'started'.
C5_LastUpsertWins ==
  /\ RowOfLastUpsert
  /\ \A p \in Triggers :
       Finished(p) =>
         /\ FailedCalls(p) \cap TrackerWrites = {} => Finalized(p)
         /\ FailedCalls(p) \cap TrackerWrites # {} =>
              \A row \in RunRows(p) : row.status = "started"
  /\ \A a, b \in report_runs : a.run_id = b.run_id => a = b

\* two overlapping runs for one month have both returned, the row is that of
\* the last upsert, and each run has its own record
C5_Witness ==
  \E p, q \in Triggers :
    /\ p # q /\ OverlappedForOneMonth
    /\ result[p].ok /\ result[q].ok
    /\ lastUpsert = {<<frame[p].period.monthKey, p>>}
    /\ monthly_reports = {OwnRow(p)}
    /\ Finalized(p) /\ Finalized(q)

\* no invocation is in progress
Quiescent == \A p \in Triggers : ~InProgress(p)

\* the invocations the stored html, the stored PDF and the row of a month
\* originate from
Origins(monthKey) ==
  {BodyOrigin(object.body) : object \in
     {o \in bucket : o.key \in {HtmlKey(SITE_CONFIG.clientId, monthKey),
                                PdfKey(SITE_CONFIG.clientId, monthKey)}}}
  \cup {RowOrigin(row) : row \in MonthRows(monthKey)}

\* the stored html, the stored PDF and the row of the month of p are those of p
AllFrom(p) ==
  /\ {o \in bucket : o.key = frame[p].htmlKey} =
       {[key |-> frame[p].htmlKey, body |-> frame[p].html,
         contentType |-> "text/html; charset=utf-8"]}
  /\ {o \in bucket : o.key = frame[p].pdfKey} =
       {[key |-> frame[p].pdfKey, body |-> frame[p].pdf, contentType |-> "application/pdf"]}
  /\ MonthRows(frame[p].period.monthKey) = {OwnRow(p)}

\* C6 as stated: after any set of runs for one month has finished, what is
\* stored of the html, the PDF and the row of that month originates from one
\* run.
C6_OneOriginAfterAnyRuns ==
  Quiescent =>
    \A p \in Triggers :
      Finished(p) => Cardinality(Origins(frame[p].period.monthKey)) <= 1

\* C6: when a run returns its report, and no other run was in progress or had
\* a request unanswered at any time during it, the stored html, the stored
\* PDF and the row of its month all originate from that run.
C6_OneOriginAfterSeparateRuns ==
  [][
    \A p \in Triggers :
      (/\ pc[p] = "updateRunFinish"
       /\ pc'[p] = "done"
       /\ result'[p].ok
       /\ ~overlapped) => AllFrom(p)'
  ]_vars

\* two runs for one month that did not overlap have both returned, and the
\* three stored things are those of the second one
C6_Witness ==
  \E p, q \in Triggers :
    /\ p # q /\ ~overlapped /\ Quiescent
    /\ Finished(p) /\ Finished(q)
    /\ result[p].ok /\ result[q].ok
    /\ frame[p].period.monthKey = frame[q].period.monthKey
    /\ lastUpsert = {<<frame[p].period.monthKey, p>>}
    /\ AllFrom(p)

TrafficFailed(p) ==
  FailedCalls(p) \cap {<<"traffic", "current">>, <<"traffic", "previous">>} # {}

\* what C7 says but for the run record: after a failed traffic fetch the run
\* issues no further request, no put and no upsert, attempts the finish
\* update with 'failed' and throws the error of the fetch to its caller
C7_Aborted ==
  \A p \in Triggers :
    TrafficFailed(p) =>
      /\ ~Issued(p)
      /\ Len(calls[p]) = 2
      /\ pc[p] \in {"updateRunFinish", "done"}
      /\ finishCalls[p] = <<"failed">>
      /\ frame[p].error \in {Error(AuthFailedMessage), Error(RequestFailedMessage)}
      /\ pc[p] = "done" => result[p] = Thrown(frame[p].error)

\* C7 as stated: when a traffic fetch fails no artifact is written, no row is
\* upserted, the run record becomes 'failed' and the error reaches the caller.
C7_TrafficFailureRecorded ==
  /\ C7_Aborted
  /\ \A p \in Triggers :
       pc[p] = "done" /\ TrafficFailed(p) => \E row \in RunRows(p) : row.status = "failed"

\* C7: when a traffic fetch fails no artifact is written, no row is upserted,
\* the finish update is attempted with 'failed' and the error reaches the
\* caller; the run record becomes 'failed', with the error message, when both
\* writes of the run tracker succeed, and never becomes 'success'.
C7_TrafficFailureAborts ==
  /\ C7_Aborted
  /\ \A p \in Triggers :
       pc[p] = "done" /\ TrafficFailed(p) =>
         /\ \A row \in RunRows(p) : row.status # "success"
         /\ FailedCalls(p) \cap TrackerWrites = {} =>
              \E row \in RunRows(p) :
                /\ row.status = "failed"
                /\ row.error_message = Some(truncateErrorMessage(frame[p].error))

\* a traffic fetch failed, the error was thrown to the caller and the run is
\* recorded 'failed'
C7_Witness ==
  \E p \in Triggers :
    /\ pc[p] = "done" /\ TrafficFailed(p)
    /\ ~result[p].ok
    /\ \E row \in RunRows(p) : row.status = "failed"
    /\ bucket = {} /\ monthly_reports = {}

\* the requests whose failure is degraded
DegradedCalls ==
  {<<"topPaths", "">>, <<"securityFull", "">>, <<"securityActionOnly", "">>}
  \cup {<<"pagespeed mobile", url>> : url \in UrlSet}
  \cup {<<"pagespeed desktop", url>> : url \in UrlSet}

\* C8: a run in which nothing failed but the security queries, the top-paths
\* query, PageSpeed probes or writes of the run tracker returns its report:
\* the finish update is 'success' and its snapshot was persisted; when the
\* writes of the run tracker succeeded too, the run is recorded 'success' with
\* the count of its warnings.
C8_DegradedCallsNeverFail ==
  \A p \in Triggers :
    Finished(p) /\ FailedCalls(p) \subseteq DegradedCalls \cup TrackerWrites =>
      /\ result[p].ok
      /\ result[p].value.snapshot = frame[p].snapshot
      /\ finishCalls[p] = <<"success">>
      /\ MonthRows(frame[p].period.monthKey) # {}
      /\ <<frame[p].period.monthKey, p>> \in lastUpsert =>
           MonthRows(frame[p].period.monthKey) = {OwnRow(p)}
      /\ FailedCalls(p) \cap TrackerWrites = {} =>
           \E row \in RunRows(p) :
             /\ row.status = "success"
             /\ row.warning_count = Len(frame[p].snapshot.warnings)

\* a run in which two of those requests failed has returned its report
C8_Witness ==
  \E p \in Triggers :
    /\ Finished(p) /\ result[p].ok
    /\ FailedCalls(p) \subseteq DegradedCalls
    /\ Cardinality(FailedCalls(p)) = 2
    /\ \E row \in RunRows(p) : row.status = "success"
    /\ OwnRow(p) \in monthly_reports

\* p has built its snapshot
SnapshotBuilt(p) == \E i \in 1..Len(calls[p]) : calls[p][i] = <<"pdf", "">>

\* the security source gave p nothing: the full query failed, and the
\* action-only query failed or was not made
SecurityFailedEntirely(p) ==
  /\ <<"securityFull", "">> \in FailedCalls(p)
  /\ \/ <<"securityActionOnly", "">> \in FailedCalls(p)
     \/ \A i \in 1..Len(calls[p]) : calls[p][i] # <<"securityActionOnly", "">>

\* the warning the variant of reporting.ts without the run tracker pushes
SecurityWarningPrefix == "Security analytics unavailable: "

ReferencesSecurity(warning) == warning.parts[1] = SecurityWarningPrefix

\* the performance entry of a url holds what its probes fetched
HoldsFetchedScores(p, entry) ==
  /\ entry.mobile = IF <<"pagespeed mobile", entry.url>> \in FailedCalls(p)
                    THEN emptyScores ELSE UpstreamScores(entry.url, "mobile")
  /\ entry.desktop = IF <<"pagespeed desktop", entry.url>> \in FailedCalls(p)
                     THEN emptyScores ELSE UpstreamScores(entry.url, "desktop")

\* C9: when the security source fails entirely the snapshot has
\* totalFirewallActions = 0, topCategories = [] and a warning that refers to
\* security, and its traffic and performance sections hold what was fetched.
C9_SecurityFailureWarned ==
  \A p \in Triggers :
    SnapshotBuilt(p) /\ SecurityFailedEntirely(p) =>
      LET snapshot == frame[p].snapshot
          current == sumTraffic(frame[p].currentDaily)
          previous == sumTraffic(frame[p].previousDaily)
      IN  /\ snapshot.security.totalFirewallActions = 0
          /\ snapshot.security.topCategories = <<>>
          /\ snapshot.traffic.requests = withDelta(current.requests, previous.requests)
          /\ snapshot.traffic.uniqueVisitors = withDelta(current.uniques, previous.uniques)
          /\ snapshot.traffic.bandwidth = withDelta(current.bytes, previous.bytes)
          /\ \A i \in 1..Len(snapshot.performance) :
               HoldsFetchedScores(p, snapshot.performance[i])
          /\ \E i \in 1..Len(snapshot.warnings) : ReferencesSecurity(snapshot.warnings[i])

\* the number of requests of p with the name
CountCalls(p, name) == Cardinality({i \in 1..Len(calls[p]) : calls[p][i][1] = name})

\* the full security query of p failed with one of the outcomes
FullQueryFailed(p, outcomes) ==
  \E outcome \in outcomes : <<"securityFull", "", outcome>> \in failed[p]

\* what C10 says of the number of requests: at most two security queries, the
\* action-only one only after the full one failed, and no request of a run
\* made twice
C10_NoRepeat ==
  \A p \in Triggers :
    /\ CountCalls(p, "securityFull") <= 1
    /\ CountCalls(p, "securityActionOnly") <= 1
    /\ CountCalls(p, "securityActionOnly") = 1 =>
         /\ <<"securityFull", "">> \in FailedCalls(p)
         /\ \E i, j \in 1..Len(calls[p]) :
              /\ i < j
              /\ calls[p][i] = <<"securityFull", "">>
              /\ calls[p][j] = <<"securityActionOnly", "">>
    /\ \A i, j \in 1..Len(calls[p]) : calls[p][i] = calls[p][j] => i = j

\* C10 as stated: whenever the full query fails the action-only query is
\* issued, and the result is empty only after that one failed too; never more
\* than two queries, and no other request repeated.
C10_FallbackAfterAnyFailure ==
  /\ C10_NoRepeat
  /\ \A p \in Triggers :
       SnapshotBuilt(p) /\ <<"securityFull", "">> \in FailedCalls(p) =>
         /\ CountCalls(p, "securityActionOnly") = 1
         /\ frame[p].snapshot.security = buildSecuritySnapshot(<<>>) =>
              <<"securityActionOnly", "">> \in FailedCalls(p)

\* C10: when the full query fails with an error that does not say the zone
\* "does not have access", the action-only query is issued, and the result
\* is empty only after that one failed too; when the error says so, the
\* result is empty after the one query; never more than two queries, and no
\* other request repeated.
C10_FallbackUnlessNoAccess ==
  /\ C10_NoRepeat
  /\ \A p \in Triggers :
       SnapshotBuilt(p) =>
         /\ FullQueryFailed(p, {"auth", "http"}) =>
              /\ CountCalls(p, "securityActionOnly") = 1
              /\ frame[p].snapshot.security = buildSecuritySnapshot(<<>>) <=>
                   <<"securityActionOnly", "">> \in FailedCalls(p)
         /\ FullQueryFailed(p, {"noaccess"}) =>
              /\ CountCalls(p, "securityActionOnly") = 0
              /\ frame[p].snapshot.security = buildSecuritySnapshot(<<>>)
         /\ <<"securityFull", "">> \notin FailedCalls(p) =>
              /\ CountCalls(p, "securityActionOnly") = 0
              /\ frame[p].snapshot.security # buildSecuritySnapshot(<<>>)

\* a run made the action-only query after the full one had failed, that one
\* failed too, and the security section of the snapshot is empty
C10_Witness ==
  \E p \in Triggers :
    /\ SnapshotBuilt(p)
    /\ FullQueryFailed(p, {"auth", "http"})
    /\ CountCalls(p, "securityFull") = 1
    /\ CountCalls(p, "securityActionOnly") = 1
    /\ <<"securityActionOnly", "">> \in FailedCalls(p)
    /\ frame[p].snapshot.security = buildSecuritySnapshot(<<>>)

\* the analytics requests of a run: the GraphQL requests of cloudflare.ts
AnalyticsRequests == {"traffic", "topPaths", "securityFull", "securityActionOnly"}

\* an analytics request of p was answered with the rejection of the credential
AuthRejected(p) == \E f \in failed[p] : f[1] \in AnalyticsRequests /\ f[3] = "auth"

\* C11: a credential rejection answered to any analytics request of a run (a
\* traffic fetch, the top-paths query or a security query) aborts the run:
\* the finish update is 'failed', the run is not recorded 'success', nothing
\* of the run is put or upserted, and the error is thrown to the caller.
C11_AuthRejectionAborts ==
  \A p \in Triggers :
    Finished(p) /\ AuthRejected(p) =>
      /\ ~result[p].ok
      /\ result[p].error = Error(AuthFailedMessage)
      /\ finishCalls[p] = <<"failed">>
      /\ \A row \in RunRows(p) : row.status # "success"
      /\ ~Issued(p)

\* p stored both its documents and its upsert then failed
UpsertFailed(p) == <<"persistSnapshot", "">> \in FailedCalls(p)

\* what C12 says but for the run record of the first run: after a failed
\* upsert the finish update is attempted with 'failed'; and when a run for the
\* month that started after that run had finished, and that no run
\* overlapped, reaches its 'success' finish call, the stored html, the stored
\* PDF and the row of the month are all its own
C12_Retry ==
  /\ \A p \in Triggers :
       UpsertFailed(p) =>
         /\ pc[p] \in {"updateRunFinish", "done"}
         /\ finishCalls[p] = <<"failed">>
         /\ OwnRow(p) \notin monthly_reports
  /\ \A p, q \in Triggers :
       (/\ p # q
        /\ Finished(q) /\ UpsertFailed(q)
        /\ ~overlapped
        /\ pc[p] = "updateRunFinish"
        /\ finishCalls[p] = <<"success">>
        /\ frame[p].period.monthKey = frame[q].period.monthKey) => AllFrom(p)

\* C12 as stated: a run whose upsert fails after its artifacts were written is
\* recorded 'failed', and a later run for the month that succeeds overwrites
\* both artifacts and the row.
C12_UpsertFailureRecorded ==
  /\ C12_Retry
  /\ \A p \in Triggers :
       Finished(p) /\ UpsertFailed(p) => \E row \in RunRows(p) : row.status = "failed"

\* C12: a run whose upsert fails after its artifacts were written attempts the
\* finish update with 'failed': it is recorded 'failed' when both writes of
\* the run tracker succeed and is never recorded 'success'; a later run for
\* the month that succeeds overwrites both artifacts and the row, so that all
\* three are its own.
C12_UpsertFailureRetried ==
  /\ C12_Retry
  /\ \A p \in Triggers :
       Finished(p) /\ UpsertFailed(p) =>
         /\ \A row \in RunRows(p) : row.status # "success"
         /\ FailedCalls(p) \cap TrackerWrites = {} =>
              \E row \in RunRows(p) : row.status = "failed"

\* a run stored its artifacts, failed at its upsert and is recorded 'failed';
\* the run for the same month that followed it has returned, and the three
\* stored things are its own
C12_Witness ==
  \E p, q \in Triggers :
    /\ p # q /\ ~overlapped
    /\ Finished(p) /\ Finished(q)
    /\ UpsertFailed(q)
    /\ \E row \in RunRows(q) : row.status = "failed"
    /\ result[p].ok
    /\ frame[p].period.monthKey = frame[q].period.monthKey
    /\ AllFrom(p)

\* the error a failed step of a run rejects with
ErrorOfFailure(f) ==
  CASE f[1] = "traffic" ->
         IF f[3] = "auth" THEN Error(AuthFailedMessage) ELSE Error(RequestFailedMessage)
    [] f[1] = "pdf" -> Error(PdfFailedMessage)
    [] f[1] = "put" -> Error(R2FailedMessage)
    [] OTHER -> Error(D1FailedMessage)

\* the errors raised in the run of p that no wrapper catches
RaisedErrors(p) == {ErrorOfFailure(f) : f \in {g \in failed[p] : <<g[1], g[2]>> \in FatalSteps}}

\* the row records a failure with the message of the error, cut to at most
\* 1800 characters, and no artifact keys
RecordsFailure(row, error) ==
  /\ row.status = "failed"
  /\ row.html_key = None
  /\ row.pdf_key = None
  /\ row.error_message # None
  /\ row.error_message[1].message = error.message
  /\ row.error_message[1].length <= 1800
  /\ row.error_message[1].length <= error.length

\* C13 as stated: every error raised during a run that is not a degraded
\* adapter failure is thrown unchanged to the trigger, after the run record
\* has been set to 'failed' with a message of at most 1800 characters and no
\* artifact keys.
C13_EveryErrorRethrown ==
  \A p \in Triggers :
    Finished(p) /\ ~(FailedCalls(p) \subseteq DegradedCalls) =>
      /\ ~result[p].ok
      /\ \E row \in RunRows(p) : RecordsFailure(row, result[p].error)

\* C13: every error raised during a run that is neither a degraded adapter
\* failure nor a failure of a write of the run tracker is thrown unchanged to
\* the trigger, after the finish update has been attempted with 'failed', a
\* message of at most 1800 characters and no artifact keys; the run record
\* holds these when both writes of the run tracker succeed.  A failure of a
\* write of the run tracker is not thrown.
C13_FatalErrorRethrown ==
  \A p \in Triggers :
    /\ pc[p] # "done" => result[p] = Null
    /\ Finished(p) /\ RaisedErrors(p) = {} => result[p].ok
    /\ Finished(p) /\ RaisedErrors(p) # {} =>
         /\ ~result[p].ok
         /\ result[p].error \in RaisedErrors(p)
         /\ finishCalls[p] = <<"failed">>
         /\ RecordsFailure([status |-> frame[p].finish.status,
                            html_key |-> frame[p].finish.htmlKey,
                            pdf_key |-> frame[p].finish.pdfKey,
                            error_message |-> frame[p].finish.errorMessage],
                           result[p].error)
         /\ \A row \in RunRows(p) : row.status # "success"
         /\ FailedCalls(p) \cap TrackerWrites = {} =>
              \E row \in RunRows(p) : RecordsFailure(row, result[p].error)

\* an error longer than 1800 characters was thrown whole to the trigger, and
\* the run is recorded 'failed' with its message cut
C13_Witness ==
  \E p \in Triggers :
    /\ Finished(p) /\ ~result[p].ok
    /\ result[p].error.length > 1800
    /\ \E row \in RunRows(p) :
         /\ RecordsFailure(row, result[p].error)
         /\ row.error_message[1].length = 1800

StartRecordFailed(p) == <<"insertRunStart", "">> \in FailedCalls(p)

\* the requests a run issues when none of its steps through the upsert fails
RequestsOfWholeRun(p) ==
  <<<<"traffic", "current">>, <<"traffic", "previous">>, <<"topPaths", "">>,
    <<"securityFull", "">>>>
  \o ProbeCalls(SubSeq(UniqueUrls, 1, Min(1, Len(UniqueUrls))))
  \o (IF FullQueryFailed(p, {"auth", "http"}) THEN <<<<"securityActionOnly", "">>>> ELSE <<>>)
  \o ProbeCalls(SubSeq(UniqueUrls, 2, Len(UniqueUrls)))
  \o <<<<"pdf", "">>>>

\* C14: a run whose start record could not be written goes on to its traffic
\* fetches as a run whose start record was written does: when none of its
\* steps through the upsert fails it issues the same requests, returns its
\* report, and has its artifacts and its row stored; it has no run record.
C14_RunProceedsWithoutStartRecord ==
  \A p \in Triggers :
    /\ StartRecordFailed(p) =>
         /\ pc[p] \notin {"idle", "insertRunStart"}
         /\ Len(calls[p]) >= 2
         /\ calls[p][1] = <<"traffic", "current">>
         /\ calls[p][2] = <<"traffic", "previous">>
         /\ RunRows(p) = {}
    /\ Finished(p) /\ RaisedErrors(p) = {} =>
         /\ calls[p] = RequestsOfWholeRun(p)
         /\ result[p].ok
         /\ result[p].value.snapshot = frame[p].snapshot
         /\ finishCalls[p] = <<"success">>
         /\ <<frame[p].period.monthKey, p>> \in lastUpsert => OwnRow(p) \in monthly_reports
         /\ \E o \in bucket : o.key = frame[p].htmlKey
         /\ \E o \in bucket : o.key = frame[p].pdfKey
         /\ (\A q \in Triggers \ {p} : pc[q] = "idle") => AllFrom(p)

\* a run whose start record could not be written has returned its report,
\* and its artifacts and its row are stored
C14_Witness ==
  \E p \in Triggers :
    /\ Finished(p) /\ StartRecordFailed(p)
    /\ RunRows(p) = {}
    /\ result[p].ok
    /\ calls[p] = RequestsOfWholeRun(p)
    /\ AllFrom(p)

\* the failures of the requests p made to the analytics and PageSpeed sources
UpstreamFailures(p) ==
  {f \in failed[p] : <<f[1], f[2]>> \in DegradedCalls \cup {<<"traffic", "current">>, <<"traffic", "previous">>}}

\* the snapshot without its generation timestamp
ExceptGeneratedAt(snapshot) == [field \in DOMAIN snapshot \ {"generatedAt"} |-> snapshot[field]]

\* C15 as stated: two runs for one month that received the same upstream
\* responses hold the same html, and snapshots equal in every field but
\* generatedAt.
C15_Idempotent ==
  \A p, q \in Triggers :
    /\ p # q
    /\ SnapshotBuilt(p) /\ SnapshotBuilt(q)
    /\ frame[p].period.monthKey = frame[q].period.monthKey
    /\ UpstreamFailures(p) = UpstreamFailures(q)
    => /\ frame[p].html = frame[q].html
       /\ ExceptGeneratedAt(frame[p].snapshot) = ExceptGeneratedAt(frame[q].snapshot)

\* C15, the snapshot alone: the two snapshots differ in no field but
\* generatedAt and wordpress
C15_SnapshotsDifferOnlyInDraw ==
  \A p, q \in Triggers :
    /\ p # q
    /\ SnapshotBuilt(p) /\ SnapshotBuilt(q)
    /\ frame[p].period.monthKey = frame[q].period.monthKey
    /\ UpstreamFailures(p) = UpstreamFailures(q)
    => \A field \in SnapshotFields \ {"generatedAt", "wordpress"} :
         frame[p].snapshot[field] = frame[q].snapshot[field]

\* reports/{clientId}/{monthKey}{extension}, character by character
ArtifactKey(clientId, monthKey, extension) ==
  <<"r", "e", "p", "o", "r", "t", "s", "/", clientId, "/">> \o monthKey \o extension

\* p returned a report
Successful(p) == pc[p] = "done" /\ result[p].ok

\* the html key and the PDF key of the month of p are the keys p returned, the
\* keys of two stored objects and the keys in the snapshot row of the month
KeysOfRun(p, htmlKey, pdfKey) ==
  /\ result[p].value.htmlKey = htmlKey
  /\ result[p].value.pdfKey = pdfKey
  /\ \E o \in bucket : o.key = htmlKey /\ o.contentType = "text/html; charset=utf-8"
  /\ \E o \in bucket : o.key = pdfKey /\ o.contentType = "application/pdf"
  /\ \E row \in monthly_reports :
       /\ row.client_id = SITE_CONFIG.clientId
       /\ row.report_month = result[p].value.monthKey
       /\ row.r2_html_key = htmlKey
       /\ row.r2_pdf_key = pdfKey

\* C16 as stated: every run that returned a report has its two keys in the
\* blob store, in the snapshot row, in its run record and in what it returned.
C16_KeysInRunRecord ==
  \A p \in Triggers :
    Successful(p) =>
      LET htmlKey == ArtifactKey(SITE_CONFIG.clientId, result[p].value.monthKey, <<".", "h", "t", "m", "l">>)
          pdfKey == ArtifactKey(SITE_CONFIG.clientId, result[p].value.monthKey, <<".", "p", "d", "f">>)
      IN  /\ KeysOfRun(p, htmlKey, pdfKey)
          /\ \E row \in RunRows(p) : row.html_key = htmlKey /\ row.pdf_key = pdfKey

\* C16, amended: every run that returned a report returned the keys
\* reports/{clientId}/{monthKey}.html and .pdf, objects are stored under both
\* and the snapshot row of the month holds both; its run record, when the
\* run has one, holds both keys once it is marked 'success' and no key
\* before, and it is marked 'success' when both writes of the run tracker
\* succeeded.
C16_DeterministicKeys ==
  \A p \in Triggers :
    Successful(p) =>
      LET htmlKey == ArtifactKey(SITE_CONFIG.clientId, result[p].value.monthKey, <<".", "h", "t", "m", "l">>)
          pdfKey == ArtifactKey(SITE_CONFIG.clientId, result[p].value.monthKey, <<".", "p", "d", "f">>)
      IN  /\ KeysOfRun(p, htmlKey, pdfKey)
          /\ \A row \in RunRows(p) :
               IF row.status = "success"
               THEN row.html_key = htmlKey /\ row.pdf_key = pdfKey
               ELSE row.html_key = None /\ row.pdf_key = None
          /\ FailedCalls(p) \cap TrackerWrites = {} =>
               \E row \in RunRows(p) : row.status = "success"

\* the manual run for the override 2026-01 returned
\* reports/demo-client/2026-01.html and .pdf, and its run record holds them
C16_Witness ==
  /\ Successful("manual")
  /\ result["manual"].value.htmlKey =
       <<"r", "e", "p", "o", "r", "t", "s", "/", "demo-client", "/",
         "2", "0", "2", "6", "-", "0", "1", ".", "h", "t", "m", "l">>
  /\ result["manual"].value.pdfKey =
       <<"r", "e", "p", "o", "r", "t", "s", "/", "demo-client", "/",
         "2", "0", "2", "6", "-", "0", "1", ".", "p", "d", "f">>
  /\ KeysOfRun("manual", result["manual"].value.htmlKey, result["manual"].value.pdfKey)
  /\ \E row \in RunRows("manual") :
       row.status = "success" /\ row.html_key = result["manual"].value.htmlKey

\* the first day of month `month` (1..12) of year `year`, as YYYY-MM-DD
FirstDayOf(year, month) == toIsoYear(year) \o <<"-">> \o PadStart(month, 2) \o <<"-", "0", "1">>

Midnight(day) == day \o <<"T", "0", "0", ":", "0", "0", ":", "0", "0", "Z">>

\* the period of month `month` of year `year` by the calendar: the month
\* after December is January of the next year, the month before January is
\* December of the year before
CalendarPeriod(year, month) ==
  LET start == FirstDayOf(year, month)
      end == IF month = 12 THEN FirstDayOf(year + 1, 1) ELSE FirstDayOf(year, month + 1)
      prevStart == IF month = 1 THEN FirstDayOf(year - 1, 12) ELSE FirstDayOf(year, month - 1)
  IN  [monthKey |-> SubSeq(start, 1, Len(start) - 3),
       startDate |-> start,
       endDateExclusive |-> end,
       prevMonthKey |-> SubSeq(prevStart, 1, Len(prevStart) - 3),
       prevStartDate |-> prevStart,
       prevEndDateExclusive |-> start,
       startDateTime |-> Midnight(start),
       endDateTimeExclusive |-> Midnight(end),
       prevStartDateTime |-> Midnight(prevStart),
       prevEndDateTimeExclusive |-> Midnight(start)]

\* C17 as stated: for every valid YYYY-MM override the period the run is
\* given starts on the first day of that month, ends on the first day of the
\* following month, and its previous period is the preceding month, with the
\* datetime bounds naming the same days at 00:00:00Z.
C17_OverridePeriod ==
  [][
      \A p \in Triggers, year \in OverrideYears, month \in OverrideMonths, now \in PeriodNows :
        Start(p, MonthKeyOf(year, month), now) =>
          /\ pc'[p] = "insertRunStart"
          /\ frame'[p].period = CalendarPeriod(year, month)
  ]_vars

\* the errors parseMonthOverride throws
ValidationErrors == {Error(FormatMessage), Error(RangeMessage)}

\* C18 as stated: a run given a month override that is not YYYY-MM with a
\* month in 01..12 ends at once with a validation error and has no period.
C18_InvalidOverrideRejected ==
  [][
      \A p \in Triggers, monthOverride \in InvalidOverrides, now \in PeriodNows :
        Start(p, monthOverride, now) =>
          /\ pc'[p] = "done"
          /\ ~result'[p].ok
          /\ result'[p].error \in ValidationErrors
          /\ frame'[p] = EmptyFrame
  ]_vars

\* index.ts lines 58-79: the response of worker.fetch to an authorized
\* GET /run whose invocation of generateMonthlyReport has ended with `outcome`;
\* json() without a status answers 200
RunResponse(outcome) ==
  IF outcome.ok
  THEN [status |-> 200,
        body |-> [ok |-> TRUE,
                  month |-> outcome.value.monthKey,
                  htmlKey |-> outcome.value.htmlKey,
                  pdfKey |-> outcome.value.pdfKey,
                  warnings |-> outcome.value.snapshot.warnings]]
  ELSE [status |-> 500,
        body |-> [ok |-> FALSE, error |-> outcome.error.message]]

\* C19 as stated: the response to a manual run that ended with an error has
\* a 4xx status when the error is that of an invalid month override, and a
\* 5xx status when it is any other error.
C19_InvalidOverrideAnswered4xx ==
  pc["manual"] = "done" /\ ~result["manual"].ok =>
    IF result["manual"].error \in ValidationErrors
    THEN RunResponse(result["manual"]).status \in 400..499
    ELSE RunResponse(result["manual"]).status \in 500..599

\* C19, the other errors alone: the response to a manual run that ended with
\* an error of an upstream, of the conversion or of a store has a 5xx status
C19_OtherErrorsAnswered5xx ==
  pc["manual"] = "done" /\ ~result["manual"].ok /\ result["manual"].error \notin ValidationErrors =>
    RunResponse(result["manual"]).status \in 500..599

\* the year and the number (1..12) of the calendar month before the UTC month
\* of the instant
PrecedingMonth(now) ==
  IF now.m0 = 0 THEN [year |-> now.y - 1, month |-> 12] ELSE [year |-> now.y, month |-> now.m0]

\* C20: a run started with no override at a reference instant is given the
\* period of the calendar month before the UTC month of that instant,
\* whatever the day and the time of the instant; and every run of the
\* scheduled surface is started with no override, so it is given that period
\* and never ends with a validation error.
C20_DefaultIsPrecedingMonth ==
  [][
      /\ \A p \in Triggers, now \in PeriodNows :
           Start(p, Undefined, now) =>
             /\ pc'[p] = "insertRunStart"
             /\ frame'[p].period =
                  CalendarPeriod(PrecedingMonth(now).year, PrecedingMonth(now).month)
             /\ frame'[p].period.endDateExclusive = FirstDayOf(now.y, now.m0 + 1)
      /\ pc["scheduled"] = "idle" /\ pc'["scheduled"] # "idle" =>
           /\ pc'["scheduled"] = "insertRunStart"
           /\ \E now \in PeriodNows :
                frame'["scheduled"].period =
                  CalendarPeriod(PrecedingMonth(now).year, PrecedingMonth(now).month)
           /\ \A monthOverride \in PeriodMonthParams, now \in PeriodNows :
                ~Start("scheduled", monthOverride, now)
  ]_vars

\* the scheduled surface, started in January 2026, reports December 2025
C20_Witness ==
  /\ pc["scheduled"] = "insertRunStart"
  /\ frame["scheduled"].period.monthKey = <<"2", "0", "2", "5", "-", "1", "2">>
  /\ frame["scheduled"].period.startDate = <<"2", "0", "2", "5", "-", "1", "2", "-", "0", "1">>
  /\ frame["scheduled"].period.endDateExclusive = <<"2", "0", "2", "6", "-", "0", "1", "-", "0", "1">>

\* the number of days of month `month` (1..12) of `year` by the calendar
CalendarDays(year, month) ==
  IF month = 2
  THEN (IF year % 400 = 0 \/ (year % 4 = 0 /\ year % 100 # 0) THEN 29 ELSE 28)
  ELSE <<31, 28, 31, 30, 31, 30, 31, 31, 30, 31, 30, 31>>[month]

\* the day of the month a date written YYYY-MM-DD names
DayNumber(date) == NumberOf(SubSeq(date, 9, 10))

\* the sums of the points of `daily` whose day is in `days`
SumOfDays(daily, days) == sumTraffic(SelectSeq(daily, LAMBDA point : DayNumber(point.date) \in days))

\* buildWeeklyBreakdown has returned `rows` for a month of `length` days
ReturnedWeekly == pc = "returned" /\ frame.fn = "buildWeeklyBreakdown"

\* C21: the windows of buildWeeklyBreakdown for a month, in order: window i
\* starts on day 7(i-1)+1 and ends on day 7i, the last one on the last day
\* of the month, so they hold every day of the month once and no other day;
\* the row of a window sums the points of exactly the days of that window.
C21_WindowsPartitionMonth ==
  ReturnedWeekly =>
    LET rows == result
        year == NumberOf(SubSeq(frame.startDate, 1, 4))
        month == NumberOf(SubSeq(frame.startDate, 6, 7))
        length == CalendarDays(year, month)
        first(i) == 7 * (i - 1) + 1
        last(i) == IF 7 * i < length THEN 7 * i ELSE length
    IN  /\ Len(rows) = (length + 6) \div 7
        /\ \A i \in 1..Len(rows) :
             /\ rows[i].label.week = i
             /\ rows[i].label.from = [month |-> month - 1, day |-> first(i)]
             /\ rows[i].label.to = [month |-> month - 1, day |-> last(i)]
             /\ last(i) - first(i) + 1 <= 7
             /\ i < Len(rows) => last(i) - first(i) + 1 = 7
             /\ [requests |-> rows[i].requests, uniques |-> rows[i].uniques,
                 bytes |-> rows[i].bytes] = SumOfDays(frame.daily, first(i)..last(i))
        /\ UNION {first(i)..last(i) : i \in 1..Len(rows)} = 1..length
        /\ \A i, j \in 1..Len(rows) : i < j => last(i) < first(j)

\* February 2024 with a point for each of its 29 days: five windows, the
\* last of them the single day 29
C21_Witness ==
  /\ ReturnedWeekly
  /\ frame.startDate = <<"2", "0", "2", "4", "-", "0", "2", "-", "0", "1">>
  /\ Len(frame.daily) = 29
  /\ Len(result) = 5
  /\ result[5].label.from = [month |-> 1, day |-> 29]
  /\ result[5].label.to = [month |-> 1, day |-> 29]
  /\ result[5].requests = 39
  /\ result[1].requests = 98

\* the fraction q is the number n
IsNumber(q, n) == q.num = n * q.den

\* C22: withDelta keeps current and previous; deltaPercent is 0 when both
\* are 0, null when previous is 0 and current is not, and otherwise the
\* quotient (current - previous) / previous * 100, so 50 for 150 against 100,
\* 25 for 10000 against 8000, and negative for a drop.
C22_WithDelta ==
  pc = "returned" /\ frame.fn = "withDelta" =>
    LET current == frame.current
        previous == frame.previous
        delta == result.deltaPercent
    IN  /\ result.current = current
        /\ result.previous = previous
        /\ previous = 0 /\ current = 0 => delta # None /\ IsNumber(delta[1], 0)
        /\ previous = 0 /\ current # 0 => delta = None
        /\ previous # 0 =>
             /\ delta # None
             /\ delta[1] = [num |-> (current - previous) * 100, den |-> previous]
             /\ current < previous => (delta[1].num < 0) # (delta[1].den < 0)
        /\ current = 150 /\ previous = 100 => IsNumber(delta[1], 50)
        /\ current = 10000 /\ previous = 8000 => IsNumber(delta[1], 25)

\* withDelta(0, 0) has returned a delta of 0
C22_Witness ==
  /\ pc = "returned" /\ frame.fn = "withDelta"
  /\ frame.current = 0 /\ frame.previous = 0
  /\ result = [current |-> 0, previous |-> 0, deltaPercent |-> Some([num |-> 0, den |-> 1])]

\* the labels of the groups, and for a label the sum of the counts of its
\* groups and the place of its first group
LabelsOf(groups) == {CategoryLabel(groups[i]) : i \in 1..Len(groups)}

CountOfLabel(groups, label) ==
  SumCounts(SelectSeq(groups, LAMBDA group : CategoryLabel(group) = label))

FirstSeen(groups, label) ==
  CHOOSE i \in 1..Len(groups) :
    /\ CategoryLabel(groups[i]) = label
    /\ \A j \in 1..(i - 1) : CategoryLabel(groups[j]) # label

\* label a ranks before label b: its summed count is greater, or equal with
\* a seen first
RanksBefore(groups, a, b) ==
  \/ CountOfLabel(groups, a) > CountOfLabel(groups, b)
  \/ CountOfLabel(groups, a) = CountOfLabel(groups, b)
       /\ FirstSeen(groups, a) < FirstSeen(groups, b)

\* C23: topCategories of buildSecuritySnapshot holds at most 3 categories,
\* each with the sum of the counts of the groups of its source/action label,
\* in non-increasing order of that sum, a label seen first in the input
\* before the labels of equal sum; the categories left out rank after them.
C23_TopCategories ==
  pc = "returned" /\ frame.fn = "buildSecuritySnapshot" =>
    LET groups == frame.groups
        top == result.topCategories
        listed == {top[i].label : i \in 1..Len(top)}
    IN  /\ Len(top) = Min(3, Cardinality(LabelsOf(groups)))
        /\ listed \subseteq LabelsOf(groups)
        /\ \A i \in 1..Len(top) : top[i].count = CountOfLabel(groups, top[i].label)
        /\ \A i, j \in 1..Len(top) :
             i < j =>
               /\ top[i].count >= top[j].count
               /\ RanksBefore(groups, top[i].label, top[j].label)
        /\ \A a \in listed, b \in LabelsOf(groups) \ listed : RanksBefore(groups, a, b)

\* four labels, two of them with a summed count of 2: the label seen first
\* is the first category and the fourth label is left out
C23_Witness ==
  /\ pc = "returned" /\ frame.fn = "buildSecuritySnapshot"
  /\ Len(frame.groups) = 4
  /\ Cardinality(LabelsOf(frame.groups)) = 4
  /\ Len(result.topCategories) = 3
  /\ result.topCategories[1].count = 2
  /\ result.topCategories[2].count = 2
  /\ result.topCategories[1].label = CategoryLabel(frame.groups[2])
  /\ result.topCategories[2].label = CategoryLabel(frame.groups[4])

ReturnedPageSpeed == pc = "returned" /\ frame.fn = "fetchPageSpeedForUrls"

\* the warnings of the bundle that name the device and the url
WarningsNaming(warnings, device, url) ==
  SelectSeq(warnings,
            LAMBDA warning : warning.parts = <<"PageSpeed " \o device \o " failed for ", url>>)

AllNull(scores) ==
  /\ scores.performance = None
  /\ scores.accessibility = None
  /\ scores.bestPractices = None
  /\ scores.seo = None

\* the entry holds, for the device, what the probe of that device gave: its
\* own scores, or four nulls and one warning when it failed
DeviceIsolated(entry, scores, device, outcome, warnings) ==
  IF outcome = "ok"
  THEN /\ scores = UpstreamScores(entry.url, device)
       /\ ~AllNull(scores)
       /\ Len(WarningsNaming(warnings, device, entry.url)) = 0
  ELSE /\ AllNull(scores)
       /\ Len(WarningsNaming(warnings, device, entry.url)) = 1

\* C24: every probed url has its entry in the results; for each device the
\* entry holds the scores the probe of that device returned, whatever the
\* probe of the other device did, and when the probe of a device failed its
\* four scores are null and exactly one warning names the url and the device.
C24_ProbeFailureIsolated ==
  ReturnedPageSpeed =>
    LET results == result.bundle.results
        warnings == result.bundle.warnings
    IN  /\ \A i \in 1..Len(frame.urls) :
             frame.urls[i] # "" => \E k \in 1..Len(results) : results[k].url = frame.urls[i]
        /\ \A k \in 1..Len(results) :
             LET entry == results[k]
                 probe == frame.probes[entry.url]
             IN  /\ DeviceIsolated(entry, entry.mobile, "mobile", probe.mobile, warnings)
                 /\ DeviceIsolated(entry, entry.desktop, "desktop", probe.desktop, warnings)
        /\ Len(warnings) =
             Cardinality({<<k, device>> \in (1..Len(results)) \X {"mobile", "desktop"} :
                            frame.probes[results[k].url][device] # "ok"})

\* the desktop probe of a url failed and its mobile probe did not: the entry
\* holds the mobile scores, null desktop scores, and the one warning
C24_Witness ==
  /\ ReturnedPageSpeed
  /\ Len(result.bundle.results) = 2
  /\ \E k \in 1..2 :
       LET entry == result.bundle.results[k]
       IN  /\ frame.probes[entry.url].desktop = "fail"
           /\ frame.probes[entry.url].mobile = "ok"
           /\ entry.mobile = UpstreamScores(entry.url, "mobile")
           /\ AllNull(entry.desktop)
           /\ Len(WarningsNaming(result.bundle.warnings, "desktop", entry.url)) = 1
           /\ Len(WarningsNaming(result.bundle.warnings, "mobile", entry.url)) = 0

\* the places of the list where a url occurs
PlacesOf(urls, url) == {i \in 1..Len(urls) : urls[i] = url}

FirstPlace(urls, url) == CHOOSE i \in PlacesOf(urls, url) : \A j \in PlacesOf(urls, url) : i <= j

\* C25: of a configured list, each distinct non-empty url is requested once
\* for mobile and once for desktop, the empty url is never requested, and
\* the results hold each distinct non-empty url once, in the order of the
\* first occurrences in the list.
C25_UrlsProbedOnce ==
  ReturnedPageSpeed =>
    LET results == result.bundle.results
        requests == result.requests
        distinct == {frame.urls[i] : i \in 1..Len(frame.urls)} \ {""}
    IN  /\ \A url \in distinct, device \in {"pagespeed mobile", "pagespeed desktop"} :
             Cardinality(PlacesOf(requests, <<device, url>>)) = 1
        /\ \A i \in 1..Len(requests) : requests[i][2] \in distinct
        /\ Len(requests) = 2 * Cardinality(distinct)
        /\ Len(results) = Cardinality(distinct)
        /\ \A url \in distinct : \E k \in 1..Len(results) : results[k].url = url
        /\ \A j, k \in 1..Len(results) :
             j < k => FirstPlace(frame.urls, results[j].url) < FirstPlace(frame.urls, results[k].url)

\* a list with a repeated url and an empty entry: the url is requested once
\* per device and has one entry
C25_Witness ==
  /\ ReturnedPageSpeed
  /\ frame.urls = <<"https://b.example/", "", "https://b.example/">>
  /\ Len(result.bundle.results) = 1
  /\ result.bundle.results[1].url = "https://b.example/"
  /\ result.requests = <<<<"pagespeed mobile", "https://b.example/">>,
                         <<"pagespeed desktop", "https://b.example/">>>>

TrafficCalls == {<<"traffic", "current">>, <<"traffic", "previous">>}

\* the requests the step appends to the requests of p
NewCalls(p) == SubSeq(calls'[p], Len(calls[p]) + 1, Len(calls'[p]))

\* C26: the two traffic fetches of a run are issued in the step in which its
\* start write returns, before any other request; a top-paths, security or
\* PageSpeed request is issued only by a run whose two traffic fetches have
\* returned without failure; a run with a failed traffic fetch has issued
\* none of them.
C26_TwoStages ==
  [][
      \A p \in Triggers :
        /\ \A i \in 1..Len(NewCalls(p)) :
             /\ NewCalls(p)[i] \in TrafficCalls =>
                  /\ pc[p] = "insertRunStart"
                  /\ calls[p] = <<>>
             /\ NewCalls(p)[i] \in DegradedCalls =>
                  /\ pc[p] \in {"traffic", "analytics"}
                  /\ pc'[p] \in {"analytics", "pdf"}
                  /\ Len(calls[p]) >= 2
                  /\ calls[p][1] = <<"traffic", "current">>
                  /\ calls[p][2] = <<"traffic", "previous">>
                  /\ failed'[p] \cap {f \in failed'[p] : <<f[1], f[2]>> \in TrafficCalls} = {}
        /\ (\E f \in failed'[p] : <<f[1], f[2]>> \in TrafficCalls) =>
             \A i \in 1..Len(calls'[p]) : calls'[p][i] \notin DegradedCalls
  ]_vars

\* one run has issued its second-stage requests after both of its traffic
\* fetches returned, and the other, whose traffic fetch failed, has issued
\* the two traffic fetches alone
C26_Witness ==
  \E p, q \in Triggers :
    /\ pc[p] = "analytics"
    /\ SubSeq(calls[p], 1, 4) = <<<<"traffic", "current">>, <<"traffic", "previous">>,
                                  <<"topPaths", "">>, <<"securityFull", "">>>>
    /\ TrafficFailed(q)
    /\ calls[q] = <<<<"traffic", "current">>, <<"traffic", "previous">>>>

\* C27 as stated: the period of a run given an override that passes
\* validation has that override as its monthKey and the override followed by
\* -01 as its startDate.
C27_MonthKeyIsOverride ==
  [][
      \A p \in Triggers, monthOverride \in ValidOverrides, now \in PeriodNows :
        Start(p, monthOverride, now) =>
          /\ pc'[p] = "insertRunStart"
          /\ frame'[p].period.monthKey = monthOverride
          /\ frame'[p].period.startDate = monthOverride \o <<"-", "0", "1">>
  ]_vars

\* C28: for every run record marked 'success', monthly_reports holds the row
\* of its client and month, and the blob store holds an object under each
\* of the two keys the record names.
C28_SuccessImpliesStored ==
  \A run \in report_runs :
    run.status = "success" =>
      /\ \E row \in monthly_reports :
           row.client_id = run.client_id /\ row.report_month = run.report_month
      /\ run.html_key # None
      /\ run.pdf_key # None
      /\ \E o \in bucket : o.key = run.html_key
      /\ \E o \in bucket : o.key = run.pdf_key

\* a run record is marked 'success' and names the keys of two stored objects
C28_Witness ==
  \E run \in report_runs :
    /\ run.status = "success"
    /\ run.html_key = HtmlKey(run.client_id, run.report_month)
    /\ run.pdf_key = PdfKey(run.client_id, run.report_month)
    /\ \E o \in bucket : o.key = run.html_key /\ o.contentType = "text/html; charset=utf-8"
    /\ \E o \in bucket : o.key = run.pdf_key /\ o.contentType = "application/pdf"
    /\ \E row \in monthly_reports : row.report_month = run.report_month

\* the run of p has a run record and every run record of it is terminal
Terminated(p) == RunRows(p) # {} /\ \A row \in RunRows(p) : Terminal(row)

FinishUpdateFailed(p) == <<"updateRunFinish", "">> \in FailedCalls(p)

\* C29 as stated: every run whose start record was written eventually has
\* its run record 'success' or 'failed'.
C29_EveryRecordTerminates ==
  \A p \in Triggers : (RunRows(p) # {}) ~> Terminated(p)

\* C29, amended: every run that has started ends, having called the finish
\* update exactly once; once it has ended, a run whose start record was
\* written has its record 'success' or 'failed' unless that finish update
\* failed, and then the record is still 'started'.
C29_RecordTerminatesUnlessFinishFails ==
  /\ \A p \in Triggers :
       (pc[p] \notin {"idle", "done"}) ~> (pc[p] = "done" /\ Len(finishCalls[p]) = 1)
  /\ [](\A p \in Triggers :
          Finished(p) /\ RunRows(p) # {} =>
            IF FinishUpdateFailed(p)
            THEN \A row \in RunRows(p) : row.status = "started"
            ELSE Terminated(p))

\* a run whose start record was written has ended after a failure, and its
\* record is 'failed'
C29_Witness ==
  \E p \in Triggers :
    /\ Finished(p)
    /\ ~result[p].ok
    /\ ~FinishUpdateFailed(p)
    /\ \E row \in RunRows(p) : row.status = "failed"
    /\ Terminated(p)

ReturnedSnapshot == pc = "returned" /\ frame.fn = "buildSnapshot"

\* the requests, uniques and bytes of the rows, added up
RECURSIVE SumRows(_)
SumRows(rows) ==
  IF rows = <<>> THEN [requests |-> 0, uniques |-> 0, bytes |-> 0]
  ELSE LET rest == SumRows(Tail(rows))
       IN  [requests |-> Head(rows).requests + rest.requests,
            uniques |-> Head(rows).uniques + rest.uniques,
            bytes |-> Head(rows).bytes + rest.bytes]

====
